---- MODULE Spec2Model ----
(***************************************************************************)
(* Barq-GraphDB storage engine (src/src/storage.rs): the append-only       *)
(* write-ahead log wal.log, its replay at open, and the in-memory node     *)
(* table, adjacency index, vector index, staging buffer and decision       *)
(* journal that the write operations maintain.                             *)
(*                                                                         *)
(* The file wal.log is a sequence of tokens.  A record is serialised as an *)
(* opening token carrying the "kind" tag, one token per field and a        *)
(* closing token; a newline token ends the line.  A write that fails half  *)
(* way leaves a proper prefix of the record's tokens in the file.          *)
(* Embedding components are finite floats, written here as integers.       *)
(***************************************************************************)
EXTENDS Integers, Sequences, FiniteSets, TLC

\* ------------------------------------------------------------------ bounds
\* Write calls (successful or not) issued on one data directory.
MaxWrites == 3
\* Write calls that the file system fails, per data directory.
MaxFaults == 1
\* set_embedding calls of a session that does nothing but set embeddings.
MaxEmbeddings == 6
\* Write calls of a session that only builds a graph.
MaxGraphWrites == 4
\* The greatest max_hops asked of bfs_hops.
MaxHops == 3
\* record_decision calls on one data directory that only records decisions.
MaxDecisions == 4
\* Write calls of a session that is asked hybrid queries.
MaxHybridWrites == 3
\* The greatest k asked of hybrid_query.
MaxK == 3
\* Write calls on one data directory whose graph is built edge by edge.
MaxFrontierWrites == 4
\* Calls of insert on one shared approximate index.
MaxPoints == 4
\* The components of the embeddings and of the queries count VecScale-ths.
VecScale == 2

\* ------------------------------------------------------------------ inputs
NodeIds == {1, 2}
EdgeType == "CALLS"
V0 == <<0>>
V1 == <<1>>
EmptyVec == <<>>

MkEdge(f, t) == [from |-> f, to |-> t, edge_type |-> EdgeType]

MkNode(i, l, emb, es) ==
    [id |-> i, label |-> l, embedding |-> emb, edges |-> es,
     timestamp |-> 0, agent_id |-> "None", rule_tags |-> <<>>]

\* Nodes handed to append_node: a bare node, and a node that carries an
\* embedding and an outgoing edge.
NodeInputs ==
    {MkNode(i, "a", EmptyVec, <<>>) : i \in NodeIds}
    \cup {MkNode(i, "b", V1, <<MkEdge(i, 2)>>) : i \in NodeIds}

EdgeInputs == {<<1, 1>>, <<1, 2>>, <<2, 1>>}

EmbeddingInputs == {EmptyVec, V0}

MkDecision(i, a) ==
    [id |-> i, agent_id |-> a, created_at |-> 0, root_node |-> 1,
     path |-> <<1>>, score |-> 1, notes |-> "None"]

DecisionInputs == {MkDecision(1, 1), MkDecision(2, 2)}

IndexTypes == {"Linear", "Hnsw"}

OptionSets ==
    [index_type : IndexTypes, sync_writes : BOOLEAN, async_indexing : BOOLEAN]

\* ------------------------------------------------------------------ maps
\* HashMap::insert
Put(f, k, v) == [x \in (DOMAIN f) \cup {k} |-> IF x = k THEN v ELSE f[x]]

EmptyMap == <<>>

\* The orders in which an iteration over a HashMap may visit the keys S.
Orders(S) ==
    {o \in [1..Cardinality(S) -> S] :
        \A i, j \in 1..Cardinality(S) : i # j => o[i] # o[j]}

\* ------------------------------------------------------------------ WAL records
NodeRec(n) == [kind |-> "node", data |-> n]
EdgeRec(f, t, ty) == [kind |-> "edge", from |-> f, to |-> t, edge_type |-> ty]
EmbeddingRec(i, v) == [kind |-> "embedding", id |-> i, vec |-> v]
DecisionRec(d) == [kind |-> "decision", data |-> d]

\* ------------------------------------------------------------------ serialisation
NL == [t |-> "nl"]
OpenTok(k) == [t |-> "open", kind |-> k]
CloseTok == [t |-> "close"]
FieldTok(n, v) == [t |-> "field", name |-> n, v |-> v]

\* serde_json::to_string(&record): the tag first, then the fields in
\* declaration order.
Serialize(r) ==
    CASE r.kind = "node" ->
           <<OpenTok("node"), FieldTok("data", r.data), CloseTok>>
      [] r.kind = "edge" ->
           <<OpenTok("edge"), FieldTok("from", r.from), FieldTok("to", r.to),
             FieldTok("edge_type", r.edge_type), CloseTok>>
      [] r.kind = "embedding" ->
           <<OpenTok("embedding"), FieldTok("id", r.id), FieldTok("vec", r.vec),
             CloseTok>>
      [] r.kind = "decision" ->
           <<OpenTok("decision"), FieldTok("data", r.data), CloseTok>>

FieldNames(k) ==
    CASE k = "node" -> <<"data">>
      [] k = "edge" -> <<"from", "to", "edge_type">>
      [] k = "embedding" -> <<"id", "vec">>
      [] k = "decision" -> <<"data">>

\* A line is a record exactly when it is one opening token, the fields of
\* that kind in order, and one closing token.
WellFormed(line) ==
    /\ Len(line) >= 2
    /\ line[1].t = "open"
    /\ line[Len(line)].t = "close"
    /\ Len(line) = Len(FieldNames(line[1].kind)) + 2
    /\ \A i \in 2..(Len(line) - 1) :
          /\ line[i].t = "field"
          /\ line[i].name = FieldNames(line[1].kind)[i - 1]

\* serde_json::from_str::<WalRecord>(&line)
Deserialize(line) ==
    IF ~WellFormed(line) THEN [ok |-> FALSE]
    ELSE LET k == line[1].kind IN
         CASE k = "node" -> [ok |-> TRUE, rec |-> NodeRec(line[2].v)]
           [] k = "edge" ->
                [ok |-> TRUE, rec |-> EdgeRec(line[2].v, line[3].v, line[4].v)]
           [] k = "embedding" ->
                [ok |-> TRUE, rec |-> EmbeddingRec(line[2].v, line[3].v)]
           [] k = "decision" -> [ok |-> TRUE, rec |-> DecisionRec(line[2].v)]

RECURSIVE SplitLines(_, _, _)
\* BufRead::lines: the lines of the file, a last line without newline included.
SplitLines(file, cur, acc) ==
    IF file = <<>> THEN (IF cur = <<>> THEN acc ELSE Append(acc, cur))
    ELSE IF Head(file).t = "nl" THEN SplitLines(Tail(file), <<>>, Append(acc, cur))
    ELSE SplitLines(Tail(file), Append(cur, Head(file)), acc)

Lines(file) == SplitLines(file, <<>>, <<>>)

\* ------------------------------------------------------------------ adjacency index
\* An add_edge that leaves out an edge the list already holds.
AdjAddEdgeOnce(adj, from, to) ==
    IF from \in DOMAIN adj /\ \E i \in 1..Len(adj[from]) : adj[from][i] = to
    THEN adj
    ELSE LET a1 == Put(adj, from,
                       Append(IF from \in DOMAIN adj THEN adj[from] ELSE <<>>, to))
         IN  IF to \in DOMAIN a1 THEN a1 ELSE Put(a1, to, <<>>)

\* adjacency.entry(from).or_default().push(to); adjacency.entry(to).or_default()
AdjAddEdge(adj, from, to) ==
    LET a1 == Put(adj, from,
                  Append(IF from \in DOMAIN adj THEN adj[from] ELSE <<>>, to))
    IN  IF to \in DOMAIN a1 THEN a1 ELSE Put(a1, to, <<>>)

RECURSIVE AdjAddEdges(_, _)
\* for edge in &node.edges { ... }
AdjAddEdges(adj, edges) ==
    IF edges = <<>> THEN adj
    ELSE AdjAddEdges(AdjAddEdge(adj, Head(edges).from, Head(edges).to), Tail(edges))

\* neighbors: self.adjacency.get(&id).map(|v| v.as_slice())
Neighbors(adj, id) ==
    IF id \in DOMAIN adj THEN [some |-> TRUE, list |-> adj[id]]
    ELSE [some |-> FALSE, list |-> <<>>]

RECURSIVE SumLens(_, _)
SumLens(adj, keys) ==
    IF keys = {} THEN 0
    ELSE LET k == CHOOSE x \in keys : TRUE
         IN  Len(adj[k]) + SumLens(adj, keys \ {k})

\* edge_count
EdgeCount(adj) == SumLens(adj, DOMAIN adj)

\* ------------------------------------------------------------------ vector index
\* LinearVectorIndex::new / HnswVectorIndex::new.  The exact backend keeps
\* `vectors`; the approximate backend keeps the points of the proximity
\* graph by internal id, the two id maps and the id counter.
NewIndex(type) ==
    [type |-> type, vectors |-> EmptyMap, points |-> EmptyMap,
     node_to_internal |-> EmptyMap, internal_to_node |-> EmptyMap,
     next_internal_id |-> 1]

LinearInsert(ix, id, v) == [ix EXCEPT !.vectors = Put(@, id, v)]

HnswInsert(ix, id, v) ==
    LET internal_id == ix.next_internal_id
    IN  [ix EXCEPT !.next_internal_id = @ + 1,
                   !.points = Put(@, internal_id, v),
                   !.node_to_internal = Put(@, id, internal_id),
                   !.internal_to_node = Put(@, internal_id, id)]

\* VectorIndex::insert
VInsert(ix, id, v) ==
    IF ix.type = "Linear" THEN LinearInsert(ix, id, v) ELSE HnswInsert(ix, id, v)

\* VectorIndex::contains
VContains(ix, id) ==
    IF ix.type = "Linear" THEN id \in DOMAIN ix.vectors
    ELSE id \in DOMAIN ix.node_to_internal

VIds(ix) ==
    IF ix.type = "Linear" THEN DOMAIN ix.vectors ELSE DOMAIN ix.node_to_internal

\* VectorIndex::len
VLen(ix) == Cardinality(VIds(ix))

\* The vector a knn distance for id is computed from: the stored vector, or
\* the point of the current internal id.
VCurrent(ix, id) ==
    IF ix.type = "Linear" THEN ix.vectors[id]
    ELSE ix.points[ix.node_to_internal[id]]

\* What contains, len and knn can tell about an index.
VecView(ix) == [id \in VIds(ix) |-> VCurrent(ix, id)]

RECURSIVE InsertInOrder(_, _, _)
\* for (id, embedding) in &map { vector_index.insert(*id, embedding) }
InsertInOrder(ix, order, map) ==
    IF order = <<>> THEN ix
    ELSE InsertInOrder(VInsert(ix, Head(order), map[Head(order)]), Tail(order), map)

\* ------------------------------------------------------------------ knn
RECURSIVE SumSq(_, _)
\* l2_distance: the sum of the squared differences of the zipped components
SumSq(a, b) ==
    IF a = <<>> \/ b = <<>> THEN 0
    ELSE (Head(a) - Head(b)) * (Head(a) - Head(b)) + SumSq(Tail(a), Tail(b))

\* sum.sqrt(); on the vectors used here the root is a whole number
Sqrt(n) == CHOOSE r \in 0..n : r * r <= n /\ n < (r + 1) * (r + 1)

\* l2_distance
L2Distance(a, b) == Sqrt(SumSq(a, b))

RECURSIVE Ascending(_, _)
\* The orders a sort by ascending distance may give the elements of S: the
\* order among elements of equal distance is the one they had before the
\* sort, which is the iteration order of a hash map or a heap, so any.
Ascending(S, dist) ==
    IF S = {} THEN {<<>>}
    ELSE LET best == {x \in S : \A y \in S : dist[x] <= dist[y]}
         IN  UNION {{<<x>> \o r : r \in Ascending(S \ {x}, dist)} : x \in best}

\* Vec::truncate
Truncate(s, k) == SubSeq(s, 1, IF Len(s) < k THEN Len(s) ELSE k)

\* A scan that does not skip the vectors of another length.
LinearKnnAnyLength(ix, query, k) ==
    LET ids == DOMAIN ix.vectors
        dist == [id \in ids |-> L2Distance(query, ix.vectors[id])]
    IN  {Truncate([i \in 1..Len(o) |-> [id |-> o[i], distance |-> dist[o[i]]]], k) :
            o \in Ascending(ids, dist)}

\* LinearVectorIndex::knn: the vectors of the query's dimension, sorted by
\* distance, cut to k.
LinearKnn(ix, query, k) ==
    LET ids == {id \in DOMAIN ix.vectors : Len(ix.vectors[id]) = Len(query)}
        dist == [id \in ids |-> L2Distance(query, ix.vectors[id])]
    IN  {Truncate([i \in 1..Len(o) |-> [id |-> o[i], distance |-> dist[o[i]]]], k) :
            o \in Ascending(ids, dist)}

\* let ef_search = 50.max(k)
EfSearch(k) == IF k > 50 THEN k ELSE 50

\* let fetch_k = k * 5
FetchK(k) == k * 5

\* self.index.search(query, fetch_k, ef_search) on a graph small enough to be
\* searched whole: the knbn nearest points, nearest first, each with its
\* internal id and its distance to the query.
HnswSearch(ix, query, knbn, ef) ==
    LET dist == [p \in DOMAIN ix.points |-> L2Distance(query, ix.points[p])]
    IN  {Truncate([i \in 1..Len(o) |-> [d_id |-> o[i], distance |-> dist[o[i]]]],
                  IF knbn < ef THEN knbn ELSE ef) :
            o \in Ascending(DOMAIN ix.points, dist)}

RECURSIVE HnswCollectAnyCopy(_, _, _, _, _)
\* A loop that resolves the logical id and does not ask whether the internal
\* id is the current one.
HnswCollectAnyCopy(ix, results, final_results, seen_nodes, k) ==
    IF results = <<>> THEN final_results
    ELSE LET neighbor == Head(results)
             internal_id == neighbor.d_id
         IN  IF /\ internal_id \in DOMAIN ix.internal_to_node
                /\ ix.internal_to_node[internal_id] \notin seen_nodes
             THEN LET node_id == ix.internal_to_node[internal_id]
                      pushed == Append(final_results,
                                       [id |-> node_id, distance |-> neighbor.distance])
                  IN  IF Len(pushed) >= k THEN pushed
                      ELSE HnswCollectAnyCopy(ix, Tail(results), pushed,
                                              seen_nodes \cup {node_id}, k)
             ELSE HnswCollectAnyCopy(ix, Tail(results), final_results, seen_nodes, k)

\* A loop that never finds its result full.
HnswFullNever(final_results, k) == FALSE

\* HnswVectorIndex::knn: if final_results.len() >= k { break; }
HnswFull(final_results, k) == Len(final_results) >= k

RECURSIVE HnswCollect(_, _, _, _, _)
\* HnswVectorIndex::knn, for neighbor in results { ... }: a point is kept when
\* its internal id resolves to a node, is the node's current internal id, and
\* the node was not kept before; the loop ends at k kept points.
HnswCollect(ix, results, final_results, seen_nodes, k) ==
    IF results = <<>> THEN final_results
    ELSE LET neighbor == Head(results)
             internal_id == neighbor.d_id
         IN  IF /\ internal_id \in DOMAIN ix.internal_to_node
                /\ ix.internal_to_node[internal_id] \in DOMAIN ix.node_to_internal
                /\ ix.node_to_internal[ix.internal_to_node[internal_id]] = internal_id
                /\ ix.internal_to_node[internal_id] \notin seen_nodes
             THEN LET node_id == ix.internal_to_node[internal_id]
                      pushed == Append(final_results,
                                       [id |-> node_id, distance |-> neighbor.distance])
                  IN  IF HnswFull(pushed, k) THEN pushed
                      ELSE HnswCollect(ix, Tail(results), pushed,
                                       seen_nodes \cup {node_id}, k)
             ELSE HnswCollect(ix, Tail(results), final_results, seen_nodes, k)

\* HnswVectorIndex::knn
HnswKnn(ix, query, k) ==
    {HnswCollect(ix, results, <<>>, {}, k) :
        results \in HnswSearch(ix, query, FetchK(k), EfSearch(k))}

\* knn_search: the values self.vector_index.knn(query, k) may return
VKnn(ix, query, k) ==
    IF ix.type = "Linear" THEN LinearKnn(ix, query, k) ELSE HnswKnn(ix, query, k)

\* ------------------------------------------------------------------ bfs_hops
\* A start that is in neither the node table nor the adjacency index alone.
BfsKnownToNodesOnly(tbl, adj, start) == start \in DOMAIN tbl

\* bfs_hops: self.nodes.contains_key(&start) || self.adjacency.contains_key(&start)
BfsKnown(tbl, adj, start) == start \in DOMAIN tbl \/ start \in DOMAIN adj

\* A depth test that lets the nodes at max_hops be expanded.
BfsPrunedLate(depth, max_hops) == depth > max_hops

\* bfs_hops: if depth >= max_hops { continue; }
BfsPruned(depth, max_hops) == depth >= max_hops

\* A neighbour queued two levels below its parent.
BfsChildDepthSkipping(depth) == depth + 2

\* bfs_hops: queue.push_back((neighbor, depth + 1))
BfsChildDepth(depth) == depth + 1

RECURSIVE BfsExplore(_, _, _)
\* bfs_hops, for &neighbor in neighbors { ... }: a neighbour not yet visited
\* is marked, put in the result and queued one level deeper.
BfsExplore(neighbors, depth, st) ==
    IF neighbors = <<>> THEN st
    ELSE LET neighbor == Head(neighbors)
         IN  IF neighbor \notin st.visited
             THEN BfsExplore(Tail(neighbors), depth,
                    [visited |-> st.visited \cup {neighbor},
                     result |-> Append(st.result, neighbor),
                     queue |-> Append(st.queue,
                                      [node |-> neighbor,
                                       depth |-> BfsChildDepth(depth)])])
             ELSE BfsExplore(Tail(neighbors), depth, st)

RECURSIVE BfsLoop(_, _, _)
\* bfs_hops, while let Some((current, depth)) = queue.pop_front() { ... }
BfsLoop(adj, max_hops, st) ==
    IF st.queue = <<>> THEN st.result
    ELSE LET current == Head(st.queue).node
             depth == Head(st.queue).depth
             popped == [st EXCEPT !.queue = Tail(@)]
         IN  IF BfsPruned(depth, max_hops) THEN BfsLoop(adj, max_hops, popped)
             ELSE IF current \in DOMAIN adj
                  THEN BfsLoop(adj, max_hops, BfsExplore(adj[current], depth, popped))
                  ELSE BfsLoop(adj, max_hops, popped)

\* bfs_hops
BfsHops(tbl, adj, start, max_hops) ==
    IF ~BfsKnown(tbl, adj, start) THEN <<>>
    ELSE BfsLoop(adj, max_hops,
                 [visited |-> {start}, result |-> <<start>>,
                  queue |-> <<[node |-> start, depth |-> 0]>>])

\* ------------------------------------------------------------------ hybrid_query
\* Real numbers are fractions num/den with den > 0.
Rat(n, d) == [num |-> n, den |-> d]

RLe(a, b) == a.num * b.den <= b.num * a.den

RAdd(a, b) == Rat(a.num * b.den + b.num * a.den, a.den * b.den)

RSub(a, b) == Rat(a.num * b.den - b.num * a.den, a.den * b.den)

RMul(a, b) == Rat(a.num * b.num, a.den * b.den)

\* f32::min
RMin(a, b) == IF RLe(a, b) THEN a ELSE b

\* A similarity that grows with the distance.
VecSimInverted(vec_dist) == RMin(vec_dist, Rat(1, 1))

\* A similarity that is not clamped: 1.0 - vec_dist
VecSimUnclamped(vec_dist) == RSub(Rat(1, 1), vec_dist)

\* compute_hybrid_score: let vec_sim = 1.0 - vec_dist.min(1.0)
VecSim(vec_dist) == RSub(Rat(1, 1), RMin(vec_dist, Rat(1, 1)))

\* A graph similarity that grows with the distance.
GraphSimRising(graph_dist) == Rat(graph_dist, 1 + graph_dist)

\* compute_hybrid_score: let graph_sim = 1.0 / (1.0 + graph_dist as f32)
GraphSim(graph_dist) == Rat(1, 1 + graph_dist)

\* compute_hybrid_score
ComputeHybridScore(vec_dist, graph_dist, params) ==
    RAdd(RMul(params.alpha, VecSim(vec_dist)),
         RMul(params.beta, GraphSim(graph_dist)))

\* l2_distance as a real number: the components of the vectors, and so the
\* distances, count VecScale-ths.
VecDist(a, b) == Rat(L2Distance(a, b), VecScale)

\* A path that keeps its first and its newest id only.
HybridNewPathEndsOnly(path, neighbor) == <<Head(path), neighbor>>

\* hybrid_query: let mut new_path = path.clone(); new_path.push(neighbor);
HybridNewPath(path, neighbor) == Append(path, neighbor)

RECURSIVE HybridExplore(_, _, _, _)
\* hybrid_query, for &neighbor in neighbors { ... }: a neighbour not yet
\* visited is marked, given its depth and path, and queued.
HybridExplore(neighbors, depth, path, st) ==
    IF neighbors = <<>> THEN st
    ELSE LET neighbor == Head(neighbors)
             new_path == HybridNewPath(path, neighbor)
         IN  IF neighbor \notin st.visited
             THEN HybridExplore(Tail(neighbors), depth, path,
                    [visited |-> st.visited \cup {neighbor},
                     node_info |-> Put(st.node_info, neighbor,
                                       [graph_dist |-> depth + 1, path |-> new_path]),
                     queue |-> Append(st.queue,
                                      [node |-> neighbor, depth |-> depth + 1,
                                       path |-> new_path])])
             ELSE HybridExplore(Tail(neighbors), depth, path, st)

RECURSIVE HybridLoop(_, _, _)
\* hybrid_query, while let Some((current, depth, path)) = queue.pop_front()
HybridLoop(adj, max_hops, st) ==
    IF st.queue = <<>> THEN st.node_info
    ELSE LET current == Head(st.queue).node
             depth == Head(st.queue).depth
             path == Head(st.queue).path
             popped == [st EXCEPT !.queue = Tail(@)]
         IN  IF depth >= max_hops THEN HybridLoop(adj, max_hops, popped)
             ELSE IF current \in DOMAIN adj
                  THEN HybridLoop(adj, max_hops,
                                  HybridExplore(adj[current], depth, path, popped))
                  ELSE HybridLoop(adj, max_hops, popped)

\* hybrid_query: the visited nodes with their depth and path
HybridNodeInfo(adj, start, max_hops) ==
    HybridLoop(adj, max_hops,
               [visited |-> {start},
                node_info |-> Put(EmptyMap, start,
                                  [graph_dist |-> 0, path |-> <<start>>]),
                queue |-> <<[node |-> start, depth |-> 0, path |-> <<start>>]>>])

\* hybrid_query, filter_map: the visited nodes that are in the node table
\* with a non-empty embedding of the query's dimension
HybridScored(tbl, node_info, query_embedding) ==
    {id \in DOMAIN node_info :
        /\ id \in DOMAIN tbl
        /\ tbl[id].embedding # EmptyVec
        /\ Len(tbl[id].embedding) = Len(query_embedding)}

\* HybridResult::new(node_id, score, vec_dist, *graph_dist, path.clone())
HybridResultOf(tbl, node_info, query_embedding, params, id) ==
    LET vec_dist == VecDist(query_embedding, tbl[id].embedding)
    IN  [id |-> id,
         score |-> ComputeHybridScore(vec_dist, node_info[id].graph_dist, params),
         vector_distance |-> vec_dist,
         graph_distance |-> node_info[id].graph_dist,
         path |-> node_info[id].path]

RECURSIVE Descending(_, _)
\* results.sort_by(|a, b| b.score.partial_cmp(&a.score)...): the orders the
\* sort may give; results of equal score keep the order in which the
\* iteration over the node_info hash map produced them, so any.
Descending(S, score) ==
    IF S = {} THEN {<<>>}
    ELSE LET best == {x \in S : \A y \in S : RLe(score[y], score[x])}
         IN  UNION {{<<x>> \o r : r \in Descending(S \ {x}, score)} : x \in best}

\* A cut that keeps one result more than asked.
HybridTopKAndOne(results, k) == Truncate(results, k + 1)

\* results.truncate(k)
HybridTopK(results, k) == Truncate(results, k)

\* hybrid_query: the values it may return
HybridQueryResults(tbl, adj, query_embedding, start, max_hops, k, params) ==
    IF ~BfsKnown(tbl, adj, start) THEN {<<>>}
    ELSE LET node_info == HybridNodeInfo(adj, start, max_hops)
             ids == HybridScored(tbl, node_info, query_embedding)
             res == [id \in ids |->
                        HybridResultOf(tbl, node_info, query_embedding, params, id)]
             score == [id \in ids |-> res[id].score]
         IN  {HybridTopK([i \in 1..Len(o) |-> res[o[i]]], k) :
                 o \in Descending(ids, score)}

\* ------------------------------------------------------------------ decision queries
\* A listing that does not look at the agent.
ListDecisionsUnfiltered(journal, agent_id) == journal

RECURSIVE ListDecisionsForAgent(_, _)
\* list_decisions_for_agent: self.decisions.iter().filter(|d| d.agent_id == agent_id)
ListDecisionsForAgent(journal, agent_id) ==
    IF journal = <<>> THEN <<>>
    ELSE IF Head(journal).agent_id = agent_id
         THEN <<Head(journal)>> \o ListDecisionsForAgent(Tail(journal), agent_id)
         ELSE ListDecisionsForAgent(Tail(journal), agent_id)

\* decision_count
DecisionCount(journal) == Len(journal)

\* ------------------------------------------------------------------ replay
EmptyLoad ==
    [nodes |-> EmptyMap, adjacency |-> EmptyMap, vectors |-> EmptyMap,
     decisions |-> <<>>]

\* The records a log holds, line by line, as far as its lines parse.
RECURSIVE ParsedRecords(_)
ParsedRecords(lines) ==
    IF lines = <<>> THEN <<>>
    ELSE LET d == Deserialize(Head(lines))
         IN  IF d.ok THEN <<d.rec>> \o ParsedRecords(Tail(lines))
             ELSE ParsedRecords(Tail(lines))

\* load_wal, the arm for a node record
ReplayNode(st, node) ==
    [st EXCEPT !.adjacency = AdjAddEdges(@, node.edges),
               !.vectors = IF node.embedding # EmptyVec
                           THEN Put(@, node.id, node.embedding) ELSE @,
               !.nodes = Put(@, node.id, node)]

\* An edge arm that forgets adjacency.entry(to).or_default().
ReplayEdgeNoTarget(st, from, to) ==
    [st EXCEPT !.adjacency =
        Put(@, from, Append(IF from \in DOMAIN @ THEN @[from] ELSE <<>>, to))]

\* load_wal, the arm for an edge record
ReplayEdge(st, from, to) ==
    [st EXCEPT !.adjacency = AdjAddEdge(@, from, to)]

\* An embedding arm that updates the node and forgets vectors.insert.
ReplayEmbeddingNodeOnly(st, id, vec) ==
    [st EXCEPT !.nodes = IF id \in DOMAIN @
                         THEN [@ EXCEPT ![id].embedding = vec] ELSE @]

\* load_wal, the arm for an embedding record
ReplayEmbedding(st, id, vec) ==
    [st EXCEPT !.vectors = Put(@, id, vec),
               !.nodes = IF id \in DOMAIN @
                         THEN [@ EXCEPT ![id].embedding = vec] ELSE @]

\* A decision arm that puts the record in front of the journal.
ReplayDecisionInFront(st, decision) ==
    [st EXCEPT !.decisions = <<decision>> \o @]

\* load_wal, the arm for a decision record
ReplayDecision(st, decision) ==
    [st EXCEPT !.decisions = Append(@, decision)]

\* load_wal, match record { ... }
ApplyRecord(st, rec) ==
    CASE rec.kind = "node" -> ReplayNode(st, rec.data)
      [] rec.kind = "edge" -> ReplayEdge(st, rec.from, rec.to)
      [] rec.kind = "embedding" -> ReplayEmbedding(st, rec.id, rec.vec)
      [] rec.kind = "decision" -> ReplayDecision(st, rec.data)

\* load_wal, the test made on a line before it is parsed
SkipLine(line) == line = <<>>

RECURSIVE ReplayLinesLenient(_, _)
\* A replay loop that skips a line that does not parse.
ReplayLinesLenient(lines, st) ==
    IF lines = <<>> THEN [ok |-> TRUE, st |-> st]
    ELSE LET d == Deserialize(Head(lines))
         IN  IF SkipLine(Head(lines)) \/ ~d.ok
             THEN ReplayLinesLenient(Tail(lines), st)
             ELSE ReplayLinesLenient(Tail(lines), ApplyRecord(st, d.rec))

RECURSIVE ReplayLines(_, _)
\* load_wal, the loop over reader.lines(): an empty line is skipped, a line
\* that does not parse ends the replay with an error.
ReplayLines(lines, st) ==
    IF lines = <<>> THEN [ok |-> TRUE, st |-> st]
    ELSE IF SkipLine(Head(lines)) THEN ReplayLines(Tail(lines), st)
    ELSE LET d == Deserialize(Head(lines))
         IN  IF ~d.ok THEN [ok |-> FALSE, st |-> EmptyLoad]
             ELSE ReplayLines(Tail(lines), ApplyRecord(st, d.rec))

\* load_wal; a wal.log that does not exist replays like an empty one.
LoadWal(file) == ReplayLines(Lines(file), EmptyLoad)

\* ------------------------------------------------------------------ state
VARIABLES
    wal,            \* the tokens of wal.log; it outlives the engine
    status,         \* "closed" or "open": whether an engine handle exists
    options,        \* DbOptions of the open engine
    nodes,          \* node table: id -> Node
    adjacency,      \* adjacency index: id -> sequence of target ids
    vector_index,   \* the vector index, shared with the worker
    batch_queue,    \* staging buffer of pending nodes, shared with the worker
    decisions,      \* decision journal
    worker,         \* background thread: "none", "sleep" or "check"
    last,           \* the last call on the engine and how it ended
    snap,           \* what the readers saw when the engine was last dropped,
                    \* kept until the next write call
    hist,           \* the records of the write calls that returned Ok
    replayed,       \* how many records the open of this session replayed
    writes,         \* write calls so far
    faults,         \* write calls failed by the file system so far
    answer,         \* the last read call since the last write, and what it returned
    inserting       \* per thread, the call of HnswVectorIndex::insert it is in

vars ==
    <<wal, status, options, nodes, adjacency, vector_index, batch_queue,
      decisions, worker, last, snap, hist, replayed, writes, faults, answer,
      inserting>>

\* The threads that may hold the approximate index and call insert on it.
Threads == {"worker", "caller"}

\* A thread that is in no call of insert.
NotInserting == [pc |-> "idle", id |-> 0, embedding |-> <<>>, internal_id |-> 0]

NoRec == [kind |-> "none"]

NoOptions ==
    [index_type |-> "Linear", sync_writes |-> FALSE, async_indexing |-> FALSE]

NoSnap ==
    [valid |-> FALSE, async |-> FALSE, nodes |-> EmptyMap, adjacency |-> EmptyMap,
     vectors |-> EmptyMap, decisions |-> <<>>]

NoAnswer == [op |-> "none"]

Call(op, ok, flushed, rec) ==
    [op |-> op, ok |-> ok, flushed |-> flushed, rec |-> rec]

Init ==
    /\ wal = <<>>
    /\ status = "closed"
    /\ options = NoOptions
    /\ nodes = EmptyMap
    /\ adjacency = EmptyMap
    /\ vector_index = NewIndex("Linear")
    /\ batch_queue = <<>>
    /\ decisions = <<>>
    /\ worker = "none"
    /\ last = Call("init", TRUE, FALSE, NoRec)
    /\ snap = NoSnap
    /\ hist = <<>>
    /\ replayed = 0
    /\ writes = 0
    /\ faults = 0
    /\ answer = NoAnswer
    /\ inserting = [t \in Threads |-> NotInserting]

\* ------------------------------------------------------------------ open
\* open, the two loops that fill the vector index: first the replayed
\* vectors, then the embeddings of the nodes the index does not hold yet.
\* order1 and order2 are the iteration orders of the two HashMaps.
BuildIndex(type, st, order1, order2) ==
    LET ix1 == InsertInOrder(NewIndex(type), order1, st.vectors)
    IN  InsertInOrder(ix1, order2, [id \in DOMAIN st.nodes |-> st.nodes[id].embedding])

\* The nodes the second loop of open inserts.
LateIds(type, st, order1) ==
    LET ix1 == InsertInOrder(NewIndex(type), order1, st.vectors)
    IN  {id \in DOMAIN st.nodes :
            st.nodes[id].embedding # EmptyVec /\ ~VContains(ix1, id)}

\* A log file opened with truncate in place of append.
OpenTruncating(file) == <<>>

\* OpenOptions::new().create(true).append(true).open(&wal_path): the file is
\* made when it is missing and keeps what it holds.
OpenForAppend(file) == file

\* open on a log that replays: the engine is built, the worker started when
\* async_indexing is set, the log opened for appending.
OpenOk(opts, st) ==
    \E order1 \in Orders(DOMAIN st.vectors) :
      \E order2 \in Orders(LateIds(opts.index_type, st, order1)) :
        /\ status' = "open"
        /\ options' = opts
        /\ nodes' = st.nodes
        /\ adjacency' = st.adjacency
        /\ decisions' = st.decisions
        /\ vector_index' = BuildIndex(opts.index_type, st, order1, order2)
        /\ batch_queue' = <<>>
        /\ worker' = IF opts.async_indexing THEN "sleep" ELSE "none"
        /\ last' = Call("open", TRUE, FALSE, NoRec)
        /\ replayed' = Len(ParsedRecords(Lines(wal)))

\* open on a log that does not replay: the error is returned before the
\* index, the worker and the append handle are made.
OpenErr ==
    /\ last' = Call("open", FALSE, FALSE, NoRec)
    /\ UNCHANGED <<status, options, nodes, adjacency, decisions, vector_index,
                   batch_queue, worker, replayed>>

\* BarqGraphDb::open.  An engine of an earlier session shares nothing with
\* the new one, so its worker is let to finish before the next open.
Open ==
    \E opts \in OptionSets :
        /\ status = "closed"
        /\ worker = "none"
        /\ LET r == LoadWal(wal)
           IN  IF r.ok
               THEN OpenOk(opts, r.st) /\ wal' = OpenForAppend(wal)
               ELSE OpenErr /\ wal' = wal
        /\ UNCHANGED <<snap, hist, writes, faults, answer, inserting>>

\* Dropping the engine: the handle, the tables and the journal go; the
\* staging buffer and the index live on while the worker holds them.
Drop ==
    /\ status = "open"
    /\ status' = "closed"
    /\ snap' = [valid |-> TRUE, async |-> options.async_indexing,
                nodes |-> nodes, adjacency |-> adjacency,
                vectors |-> VecView(vector_index), decisions |-> decisions]
    /\ options' = NoOptions
    /\ nodes' = EmptyMap
    /\ adjacency' = EmptyMap
    /\ decisions' = <<>>
    /\ IF worker = "none"
       THEN vector_index' = NewIndex("Linear") /\ batch_queue' = <<>>
       ELSE UNCHANGED <<vector_index, batch_queue>>
    /\ last' = Call("drop", TRUE, FALSE, NoRec)
    /\ replayed' = 0
    /\ UNCHANGED <<wal, worker, hist, writes, faults, answer, inserting>>

\* ------------------------------------------------------------------ log append
\* How writeln!(self.wal, "{}", json) and the flush after it may end: "ok";
\* "err_data", the write of the record failed after `cut` of its tokens
\* (none of them, or all but the last);
\* "err_newline", the record is written and the write of the newline
\* failed; "err_flush", the line is written and the flush failed.
OkOutcome == [res |-> "ok", cut |-> 0]

FaultOutcomes(rec, flushes) ==
    {[res |-> "err_data", cut |-> c] : c \in {0, Len(Serialize(rec)) - 1}}
    \cup {[res |-> "err_newline", cut |-> 0]}
    \cup (IF flushes THEN {[res |-> "err_flush", cut |-> 0]} ELSE {})

\* A write that starts at the beginning of the file.
WriteLineFromStart(file, rec, out) == Serialize(rec) \o <<NL>>

\* The file after writeln!: the record's tokens and then the newline are
\* appended at the end of the file, up to the point of failure.
WriteLine(file, rec, out) ==
    CASE out.res = "err_data" -> file \o SubSeq(Serialize(rec), 1, out.cut)
      [] out.res = "err_newline" -> file \o Serialize(rec)
      [] OTHER -> file \o Serialize(rec) \o <<NL>>

\* The call returns Ok(()) when neither writeln! nor flush returned an error.
ReturnsOk(out) == out.res = "ok"

\* An in-memory update that stands before the `?` of flush would also run
\* when the flush fails.
AppliedBeforeFlush(out) == out.res \in {"ok", "err_flush"}

\* The `?` after writeln! and after flush: the in-memory updates stand below
\* both and run only when neither returned an error.
Applied(out) == out.res = "ok"

\* Whether the call got as far as self.wal.flush().
Flushed(out, flushes) == flushes /\ out.res \in {"ok", "err_flush"}

\* if self.options.sync_writes { self.wal.flush()? } in append_node, add_edge
\* and set_embedding
FlushesOnWrite(opts) == opts.sync_writes

\* record_decision calls self.wal.flush() whatever the options say
FlushesOnDecision(opts) == TRUE

\* What every write call does to the log and to the bookkeeping.
Logged(op, rec, out, flushes) ==
    /\ status = "open"
    /\ out.res # "ok" => faults < MaxFaults
    /\ writes' = writes + 1
    /\ faults' = IF out.res = "ok" THEN faults ELSE faults + 1
    /\ wal' = WriteLine(wal, rec, out)
    /\ last' = Call(op, ReturnsOk(out), Flushed(out, flushes), rec)
    /\ hist' = IF ReturnsOk(out) THEN Append(hist, rec) ELSE hist
    /\ snap' = NoSnap
    /\ answer' = NoAnswer
    /\ UNCHANGED <<status, options, worker, replayed, inserting>>

\* ------------------------------------------------------------------ append_node
\* An insert that keeps the edges add_edge gave to the previous entry.
NodesAfterAppendKeepingEdges(tbl, node) ==
    IF node.id \in DOMAIN tbl
    THEN Put(tbl, node.id, [node EXCEPT !.edges = tbl[node.id].edges \o @])
    ELSE Put(tbl, node.id, node)

\* append_node: self.nodes.insert(node.id, node)
NodesAfterAppend(tbl, node) == Put(tbl, node.id, node)

\* append_node: the adjacency is extended by the node's own edges
AdjAfterAppend(adj, node) == AdjAddEdges(adj, node.edges)

\* An append that takes the id out of the index when the node comes without
\* an embedding.
IndexAfterAppendForgetting(ix, node) ==
    IF node.embedding # EmptyVec THEN VInsert(ix, node.id, node.embedding)
    ELSE [ix EXCEPT
            !.vectors = [k \in DOMAIN @ \ {node.id} |-> @[k]],
            !.node_to_internal = [k \in DOMAIN @ \ {node.id} |-> @[k]]]

\* append_node: a non-empty embedding goes to the index
IndexAfterAppend(ix, node) ==
    IF node.embedding # EmptyVec THEN VInsert(ix, node.id, node.embedding) ELSE ix

\* append_node: ... or to the staging buffer when there is one
QueueAfterAppend(q, node) ==
    IF node.embedding # EmptyVec THEN Append(q, node) ELSE q

append_node(node, out) ==
    /\ Logged("append_node", NodeRec(node), out, FlushesOnWrite(options))
    /\ IF Applied(out)
       THEN /\ adjacency' = AdjAfterAppend(adjacency, node)
            /\ IF options.async_indexing
               THEN /\ batch_queue' = QueueAfterAppend(batch_queue, node)
                    /\ UNCHANGED vector_index
               ELSE /\ vector_index' = IndexAfterAppend(vector_index, node)
                    /\ UNCHANGED batch_queue
            /\ nodes' = NodesAfterAppend(nodes, node)
       ELSE UNCHANGED <<adjacency, vector_index, batch_queue, nodes>>
    /\ UNCHANGED decisions

\* ------------------------------------------------------------------ add_edge
\* An add_edge that makes a node entry for a from id the table lacks.
NodesAfterAddEdgeCreating(tbl, from, to, edge_type) ==
    IF from \in DOMAIN tbl
    THEN [tbl EXCEPT ![from].edges =
            Append(@, [from |-> from, to |-> to, edge_type |-> edge_type])]
    ELSE Put(tbl, from,
             MkNode(from, "", EmptyVec,
                    <<[from |-> from, to |-> to, edge_type |-> edge_type]>>))

\* add_edge: the edge is pushed on the from node's edges if that node exists
NodesAfterAddEdge(tbl, from, to, edge_type) ==
    IF from \in DOMAIN tbl
    THEN [tbl EXCEPT ![from].edges =
            Append(@, [from |-> from, to |-> to, edge_type |-> edge_type])]
    ELSE tbl

add_edge(from, to, edge_type, out) ==
    /\ Logged("add_edge", EdgeRec(from, to, edge_type), out, FlushesOnWrite(options))
    /\ IF Applied(out)
       THEN /\ adjacency' = AdjAddEdge(adjacency, from, to)
            /\ nodes' = NodesAfterAddEdge(nodes, from, to, edge_type)
       ELSE UNCHANGED <<adjacency, nodes>>
    /\ UNCHANGED <<vector_index, batch_queue, decisions>>

\* ------------------------------------------------------------------ set_embedding
\* set_embedding: the node's embedding is replaced if the node exists
NodesAfterSetEmbedding(tbl, id, embedding) ==
    IF id \in DOMAIN tbl THEN [tbl EXCEPT ![id].embedding = embedding] ELSE tbl

\* set_embedding: Node::new(id, String::new()) carrying the embedding
DummyNode(id, embedding) == MkNode(id, "", embedding, <<>>)

set_embedding(id, embedding, out) ==
    /\ Logged("set_embedding", EmbeddingRec(id, embedding), out,
              FlushesOnWrite(options))
    /\ IF Applied(out)
       THEN /\ IF options.async_indexing
               THEN /\ batch_queue' = Append(batch_queue, DummyNode(id, embedding))
                    /\ UNCHANGED vector_index
               ELSE /\ vector_index' = VInsert(vector_index, id, embedding)
                    /\ UNCHANGED batch_queue
            /\ nodes' = NodesAfterSetEmbedding(nodes, id, embedding)
       ELSE UNCHANGED <<vector_index, batch_queue, nodes>>
    /\ UNCHANGED <<adjacency, decisions>>

\* ------------------------------------------------------------------ record_decision
\* record_decision: self.decisions.push(record)
JournalAfterRecord(journal, record) == Append(journal, record)

record_decision(record, out) ==
    /\ Logged("record_decision", DecisionRec(record), out, FlushesOnDecision(options))
    /\ IF Applied(out)
       THEN decisions' = JournalAfterRecord(decisions, record)
       ELSE UNCHANGED decisions
    /\ UNCHANGED <<nodes, adjacency, vector_index, batch_queue>>

\* ------------------------------------------------------------------ async indexer
\* A worker that inserts the first node of the batch and loses the others.
ApplyBatchHeadOnly(ix, batch) ==
    IF batch = <<>> \/ Head(batch).embedding = EmptyVec THEN ix
    ELSE VInsert(ix, Head(batch).id, Head(batch).embedding)

RECURSIVE ApplyBatchNewestFirst(_, _)
\* A worker that goes through the batch from its end.
ApplyBatchNewestFirst(ix, batch) ==
    IF batch = <<>> THEN ix
    ELSE LET rest == ApplyBatchNewestFirst(ix, Tail(batch))
         IN  IF Head(batch).embedding # EmptyVec
             THEN VInsert(rest, Head(batch).id, Head(batch).embedding) ELSE rest

RECURSIVE ApplyBatch(_, _)
\* for node in batch { if !node.embedding.is_empty() { insert } }
ApplyBatch(ix, batch) ==
    IF batch = <<>> THEN ix
    ELSE ApplyBatch(
            IF Head(batch).embedding # EmptyVec
            THEN VInsert(ix, Head(batch).id, Head(batch).embedding) ELSE ix,
            Tail(batch))

\* A detachment test that is always met.
IsDetachedAlways == TRUE

\* BatchQueue::is_detached: the worker's clone is the only one left
IsDetached == status = "closed"

\* The worker wakes up, takes the whole staging buffer and inserts the batch.
WorkerFlush ==
    /\ worker = "sleep"
    /\ worker' = "check"
    /\ batch_queue' = <<>>
    /\ vector_index' = ApplyBatch(vector_index, batch_queue)
    /\ UNCHANGED <<wal, status, options, nodes, adjacency, decisions, last, snap,
                   hist, replayed, writes, faults, answer, inserting>>

\* The worker asks whether the engine is gone: it ends if so, taking the
\* staging buffer and the index with it, and sleeps again if not.
WorkerCheck ==
    /\ worker = "check"
    /\ IF IsDetached
       THEN /\ worker' = "none"
            /\ vector_index' = NewIndex("Linear")
            /\ batch_queue' = <<>>
       ELSE /\ worker' = "sleep"
            /\ UNCHANGED <<vector_index, batch_queue>>
    /\ UNCHANGED <<wal, status, options, nodes, adjacency, decisions, last, snap,
                   hist, replayed, writes, faults, answer, inserting>>

\* ------------------------------------------------------------------ insert, step by step
\* A counter that hands out its value and stays where it is.
FetchAddStuck(ix) == ix

\* self.next_internal_id.fetch_add(1, Ordering::Relaxed): the counter after
\* the call; the value handed out is the one before.
FetchAdd(ix) == [ix EXCEPT !.next_internal_id = @ + 1]

\* self.index.insert((embedding, internal_id))
GraphInsert(ix, internal_id, embedding) ==
    [ix EXCEPT !.points = Put(@, internal_id, embedding)]

\* self.node_to_internal.insert(id, internal_id)
PublishNodeToInternal(ix, id, internal_id) ==
    [ix EXCEPT !.node_to_internal = Put(@, id, internal_id)]

\* self.internal_to_node.insert(internal_id, id)
PublishInternalToNode(ix, internal_id, id) ==
    [ix EXCEPT !.internal_to_node = Put(@, internal_id, id)]

\* What a step of insert leaves alone.
IndexStepFrame ==
    /\ answer' = NoAnswer
    /\ UNCHANGED <<wal, status, options, nodes, adjacency, batch_queue, decisions,
                   worker, last, snap, hist, replayed, writes, faults>>

\* Thread t enters insert(id, embedding) and draws its internal id.
InsertFetchAdd(t, id, embedding) ==
    /\ inserting[t].pc = "idle"
    /\ inserting' = [inserting EXCEPT ![t] =
                        [pc |-> "graph", id |-> id, embedding |-> embedding,
                         internal_id |-> vector_index.next_internal_id]]
    /\ vector_index' = FetchAdd(vector_index)
    /\ IndexStepFrame

\* Thread t puts its point into the proximity graph.
InsertIntoGraph(t) ==
    /\ inserting[t].pc = "graph"
    /\ vector_index' = GraphInsert(vector_index, inserting[t].internal_id,
                                   inserting[t].embedding)
    /\ inserting' = [inserting EXCEPT ![t].pc = "node_to_internal"]
    /\ IndexStepFrame

\* Thread t makes its internal id the current one of the node.
InsertNodeToInternal(t) ==
    /\ inserting[t].pc = "node_to_internal"
    /\ vector_index' = PublishNodeToInternal(vector_index, inserting[t].id,
                                             inserting[t].internal_id)
    /\ inserting' = [inserting EXCEPT ![t].pc = "internal_to_node"]
    /\ IndexStepFrame

\* Thread t makes its internal id resolve to the node and returns.
InsertInternalToNode(t) ==
    /\ inserting[t].pc = "internal_to_node"
    /\ vector_index' = PublishInternalToNode(vector_index, inserting[t].internal_id,
                                             inserting[t].id)
    /\ inserting' = [inserting EXCEPT ![t] = NotInserting]
    /\ IndexStepFrame

\* knn on the shared index: a read call, one between two steps of insert.
knn(query, k) ==
    /\ answer = NoAnswer
    /\ \E r \in HnswKnn(vector_index, query, k) :
          answer' = [op |-> "knn", query |-> query, k |-> k, result |-> r]
    /\ UNCHANGED <<wal, status, options, nodes, adjacency, vector_index,
                   batch_queue, decisions, worker, last, snap, hist, replayed,
                   writes, faults, inserting>>

\* ------------------------------------------------------------------ specifications
\* More write calls are left on this data directory.
WritesLeft == writes < MaxWrites

AppendNode == WritesLeft /\ \E n \in NodeInputs : append_node(n, OkOutcome)

AddEdge ==
    WritesLeft /\ \E e \in EdgeInputs : add_edge(e[1], e[2], EdgeType, OkOutcome)

SetEmbedding ==
    /\ WritesLeft
    /\ \E id \in NodeIds, v \in EmbeddingInputs : set_embedding(id, v, OkOutcome)

RecordDecision ==
    WritesLeft /\ \E d \in DecisionInputs : record_decision(d, OkOutcome)

\* The calls the file system is made to fail: one of each write operation.
FailingNodes == {MkNode(1, "b", V1, <<MkEdge(1, 2)>>)}

FailingEdges == {<<1, 2>>}

FailingEmbeddings == {<<1, V0>>}

FailingDecisions == {MkDecision(1, 1)}

AppendNodeFails ==
    /\ WritesLeft
    /\ \E n \in FailingNodes :
        \E out \in FaultOutcomes(NodeRec(n), FlushesOnWrite(options)) :
          append_node(n, out)

AddEdgeFails ==
    /\ WritesLeft
    /\ \E e \in FailingEdges :
        \E out \in FaultOutcomes(EdgeRec(e[1], e[2], EdgeType), FlushesOnWrite(options)) :
          add_edge(e[1], e[2], EdgeType, out)

SetEmbeddingFails ==
    /\ WritesLeft
    /\ \E e \in FailingEmbeddings :
        \E out \in FaultOutcomes(EmbeddingRec(e[1], e[2]), FlushesOnWrite(options)) :
          set_embedding(e[1], e[2], out)

RecordDecisionFails ==
    /\ WritesLeft
    /\ \E d \in FailingDecisions :
        \E out \in FaultOutcomes(DecisionRec(d), FlushesOnDecision(options)) :
          record_decision(d, out)

\* The engine on a file system that does not fail.
Next ==
    \/ Open
    \/ Drop
    \/ AppendNode
    \/ AddEdge
    \/ SetEmbedding
    \/ RecordDecision
    \/ WorkerFlush
    \/ WorkerCheck

Spec == Init /\ [][Next]_vars

\* The engine on a file system that may fail a write or a flush.
NextIO ==
    \/ Next
    \/ AppendNodeFails
    \/ AddEdgeFails
    \/ SetEmbeddingFails
    \/ RecordDecisionFails

SpecIO == Init /\ [][NextIO]_vars

\* Vectors of one dimension, embedded and queried.
KnnVectors == {V0, V1}

\* Result sizes asked of knn_search.
KnnSizes == {1, 2}

\* open with async_indexing and sync_writes off
OpenSync == Open /\ ~options'.async_indexing /\ ~options'.sync_writes

SetEmbeddingAgain ==
    /\ writes < MaxEmbeddings
    /\ \E id \in NodeIds, v \in KnnVectors : set_embedding(id, v, OkOutcome)

\* One session of an engine with synchronous indexing that sets embeddings
\* over and over, so that the approximate index piles up stale points.
NextKnn ==
    \/ OpenSync
    \/ SetEmbeddingAgain

SpecKnn == Init /\ [][NextKnn]_vars


\* open with async_indexing on and sync_writes off
OpenAsync == Open /\ options'.async_indexing /\ ~options'.sync_writes

\* Sessions of an engine with the background indexer.
NextAsync ==
    \/ OpenAsync
    \/ Drop
    \/ AppendNode
    \/ SetEmbedding
    \/ WorkerFlush
    \/ WorkerCheck

\* The worker thread is scheduled again and again: its sleep ends, and the
\* check after a flush is made.
SpecAsync ==
    Init /\ [][NextAsync]_vars /\ WF_vars(WorkerFlush) /\ WF_vars(WorkerCheck)

\* The ids of the graphs that are traversed, and the ids never written.
GraphIds == {1, 2, 3}

UnknownIds == {4}

\* open with the default options
OpenPlain ==
    Open /\ options'.index_type = "Linear" /\ ~options'.async_indexing
         /\ ~options'.sync_writes

AddEdgeAmong ==
    /\ writes < MaxGraphWrites
    /\ \E from \in GraphIds, to \in GraphIds : add_edge(from, to, EdgeType, OkOutcome)

AppendBareNode ==
    /\ writes < MaxGraphWrites
    /\ \E id \in GraphIds : append_node(MkNode(id, "a", EmptyVec, <<>>), OkOutcome)

\* One session that builds a graph over three ids by add_edge and append_node.
NextGraph ==
    \/ OpenPlain
    \/ AddEdgeAmong
    \/ AppendBareNode

SpecGraph == Init /\ [][NextGraph]_vars

\* Nodes with embeddings and edges among three ids.
HybridNodes ==
    {MkNode(1, "b", v, <<MkEdge(1, 2), MkEdge(1, 3)>>) : v \in KnnVectors}
    \cup {MkNode(2, "b", v, <<MkEdge(2, 3)>>) : v \in KnnVectors}
    \cup {MkNode(3, "a", v, <<>>) : v \in KnnVectors}

\* Query vectors: at distance 0 to 3 VecScale-ths from the embeddings.
QueryVectors == {<<0>>, <<2>>, <<3>>}

\* HybridParams: the default weights, either weight alone, both zero, and
\* weights above one.
ParamsInputs ==
    {[alpha |-> Rat(1, 2), beta |-> Rat(1, 2)],
     [alpha |-> Rat(1, 1), beta |-> Rat(0, 1)],
     [alpha |-> Rat(0, 1), beta |-> Rat(1, 1)],
     [alpha |-> Rat(0, 1), beta |-> Rat(0, 1)],
     [alpha |-> Rat(2, 1), beta |-> Rat(3, 2)]}

AppendHybridNode ==
    /\ writes < MaxHybridWrites
    /\ \E n \in HybridNodes : append_node(n, OkOutcome)

\* hybrid_query: a read call; the engine is left as it is, so what a read
\* returns does not depend on the reads before it and one read is asked
\* between two writes.
hybrid_query(query_embedding, start, max_hops, k, params) ==
    /\ status = "open"
    /\ answer = NoAnswer
    /\ \E r \in HybridQueryResults(nodes, adjacency, query_embedding, start,
                                   max_hops, k, params) :
          answer' = [op |-> "hybrid_query", query_embedding |-> query_embedding,
                     start |-> start, max_hops |-> max_hops, k |-> k,
                     params |-> params, result |-> r]
    /\ UNCHANGED <<wal, status, options, nodes, adjacency, vector_index,
                   batch_queue, decisions, worker, last, snap, hist, replayed,
                   writes, faults, inserting>>

HybridQuery ==
    \E query_embedding \in QueryVectors, start \in {1, 2}, max_hops \in {0, 2},
       k \in 0..MaxK, params \in ParamsInputs :
        hybrid_query(query_embedding, start, max_hops, k, params)

\* One session that appends nodes and asks hybrid queries.
NextHybrid ==
    \/ OpenPlain
    \/ AppendHybridNode
    \/ HybridQuery

SpecHybrid == Init /\ [][NextHybrid]_vars

\* A graph built edge by edge: a chain 1 -> 2 -> 3, a short cut 1 -> 3 and a
\* way back 3 -> 1.
FrontierEdges == {<<1, 2>>, <<2, 3>>, <<1, 3>>, <<3, 1>>}

\* A vector of two components.
W0 == <<0, 0>>

\* Nodes without edges of their own: with no embedding, with an embedding of
\* one component, and one with an embedding of two.
FrontierNodes ==
    {MkNode(id, "a", v, <<>>) : id \in GraphIds, v \in {EmptyVec, V0}}
    \cup {MkNode(3, "a", W0, <<>>)}

\* Queries of one and of two components.
FrontierQueries == {V0, W0}

AddFrontierEdge ==
    /\ writes < MaxFrontierWrites
    /\ \E e \in FrontierEdges : add_edge(e[1], e[2], EdgeType, OkOutcome)

AppendFrontierNode ==
    /\ writes < MaxFrontierWrites
    /\ \E n \in FrontierNodes : append_node(n, OkOutcome)

SetFrontierEmbedding ==
    /\ writes < MaxFrontierWrites
    /\ \E id \in {2, 3} : set_embedding(id, V0, OkOutcome)

\* Queries that ask for as many results as there are ids.
FrontierQuery ==
    \E query_embedding \in FrontierQueries, start \in {1, 2} \cup UnknownIds,
       max_hops \in 0..2 :
        hybrid_query(query_embedding, start, max_hops, MaxK,
                     [alpha |-> Rat(1, 2), beta |-> Rat(1, 2)])

\* One session that builds a graph by add_edge, append_node and
\* set_embedding and asks hybrid queries.
NextFrontier ==
    \/ OpenPlain
    \/ AddFrontierEdge
    \/ AppendFrontierNode
    \/ SetFrontierEmbedding
    \/ FrontierQuery

SpecFrontier == Init /\ [][NextFrontier]_vars

\* HnswVectorIndex::new: an approximate index that holds nothing.
InitIndex ==
    /\ wal = <<>>
    /\ status = "closed"
    /\ options = NoOptions
    /\ nodes = EmptyMap
    /\ adjacency = EmptyMap
    /\ vector_index = NewIndex("Hnsw")
    /\ batch_queue = <<>>
    /\ decisions = <<>>
    /\ worker = "none"
    /\ last = Call("init", TRUE, FALSE, NoRec)
    /\ snap = NoSnap
    /\ hist = <<>>
    /\ replayed = 0
    /\ writes = 0
    /\ faults = 0
    /\ answer = NoAnswer
    /\ inserting = [t \in Threads |-> NotInserting]

InsertBegins ==
    /\ vector_index.next_internal_id <= MaxPoints
    /\ \E t \in Threads, id \in NodeIds, embedding \in KnnVectors :
          InsertFetchAdd(t, id, embedding)

InsertGoesOn ==
    \E t \in Threads :
        \/ InsertIntoGraph(t)
        \/ InsertNodeToInternal(t)
        \/ InsertInternalToNode(t)

KnnBetween == \E query \in KnnVectors, k \in KnnSizes : knn(query, k)

\* One approximate index shared by two threads that insert and by readers.
NextIndex ==
    \/ InsertBegins
    \/ InsertGoesOn
    \/ KnnBetween

SpecIndex == InitIndex /\ [][NextIndex]_vars

WorkerInsertBegins ==
    /\ vector_index.next_internal_id <= MaxPoints
    /\ \E id \in NodeIds, embedding \in KnnVectors :
          InsertFetchAdd("worker", id, embedding)

WorkerInsertGoesOn ==
    \/ InsertIntoGraph("worker")
    \/ InsertNodeToInternal("worker")
    \/ InsertInternalToNode("worker")

\* The approximate index of an engine with async_indexing: the worker is the
\* one thread that inserts, the engine's callers read.
NextWorkerInsert ==
    \/ WorkerInsertBegins
    \/ WorkerInsertGoesOn
    \/ KnnBetween

SpecWorkerInsert == InitIndex /\ [][NextWorkerInsert]_vars

\* Decisions of two agents, three decision ids each.
JournalInputs == {MkDecision(i, a) : i \in 1..3, a \in 1..2}

\* The agents asked about: the two that record and one that never does.
AgentsAsked == 1..3

RecordDecisionAmong ==
    /\ writes < MaxDecisions
    /\ \E d \in JournalInputs : record_decision(d, OkOutcome)

\* Sessions that record decisions, with drops and re-opens in between.
NextJournal ==
    \/ OpenPlain
    \/ Drop
    \/ RecordDecisionAmong

SpecJournal == Init /\ [][NextJournal]_vars

\* ------------------------------------------------------------------ properties
\* The engine has just been re-opened: it was dropped, and open succeeded
\* with no write call in between.
JustReopened ==
    /\ status = "open"
    /\ last.op = "open"
    /\ last.ok
    /\ snap.valid

\* C1: after drop and re-open the node table equals the node table before
\* the drop, the same ids and the same record for each id.
C1_NodeTableSurvivesReopen == JustReopened => nodes = snap.nodes

\* C2: after drop and re-open the adjacency index equals the one before the
\* drop: the same keys and for each key the same ordered list of targets,
\* hence the same edge_count.
C2_AdjacencySurvivesReopen ==
    JustReopened =>
        /\ adjacency = snap.adjacency
        /\ EdgeCount(adjacency) = EdgeCount(snap.adjacency)

\* A re-opened engine whose node 1 has the same target twice and a target
\* that has no outgoing edge of its own.
C2_Witness ==
    /\ JustReopened
    /\ 1 \in DOMAIN adjacency
    /\ adjacency[1] = <<2, 2>>
    /\ 2 \in DOMAIN adjacency
    /\ adjacency[2] = <<>>

\* C3: when the dropped engine had async_indexing disabled, the vector index
\* of the re-opened engine holds the same ids and for each id the same
\* current vector as the index before the drop.
C3_VectorIndexSurvivesReopen ==
    (JustReopened /\ ~snap.async) =>
        /\ VIds(vector_index) = DOMAIN snap.vectors
        /\ VLen(vector_index) = Cardinality(DOMAIN snap.vectors)
        /\ \A id \in VIds(vector_index) : VCurrent(vector_index, id) = snap.vectors[id]

\* A re-opened approximate index after the embedding of a node that carried
\* one was replaced by set_embedding.
C3_Witness ==
    /\ JustReopened
    /\ ~snap.async
    /\ vector_index.type = "Hnsw"
    /\ \E id \in DOMAIN snap.vectors :
          /\ snap.vectors[id] = V0
          /\ id \in DOMAIN nodes
          /\ nodes[id].label = "b"

RECURSIVE DecisionsOf(_)
\* The decision records among a sequence of WAL records, in order.
DecisionsOf(recs) ==
    IF recs = <<>> THEN <<>>
    ELSE IF Head(recs).kind = "decision"
         THEN <<Head(recs).data>> \o DecisionsOf(Tail(recs))
         ELSE DecisionsOf(Tail(recs))

\* C4: the journal of an open engine is the sequence of the decisions whose
\* record_decision calls succeeded, in call order over all sessions, and it is
\* the sequence of the decision records of the log.
C4_JournalInLogOrder ==
    status = "open" =>
        /\ decisions = DecisionsOf(hist)
        /\ decisions = DecisionsOf(ParsedRecords(Lines(wal)))

\* A second session has replayed one decision and recorded another one.
C4_Witness ==
    /\ status = "open"
    /\ replayed = 1
    /\ last.op = "record_decision"
    /\ last.ok
    /\ decisions = <<MkDecision(2, 2), MkDecision(1, 1)>>

\* A step that is a write call, successful or not.
WriteStep == writes' # writes

\* C5: every write call leaves the log either with none of the record's bytes
\* or with the complete record line appended.
C5_AllOrNothing ==
    [][WriteStep =>
          \/ wal' = wal
          \/ wal' = wal \o Serialize(last'.rec) \o <<NL>>]_vars

\* The tokens from an opening token up to the closing token its kind asks for.
RecordAt(file, i) ==
    SubSeq(file, i, i + Len(FieldNames(file[i].kind)) + 1)

\* The records whose bytes the log holds, wherever in a line they stand.
RecordsInLog(file) ==
    {Deserialize(RecordAt(file, i)).rec :
        i \in {j \in 1..Len(file) :
                 /\ file[j].t = "open"
                 /\ j + Len(FieldNames(file[j].kind)) + 1 <= Len(file)
                 /\ Deserialize(RecordAt(file, j)).ok}}

\* Whether one of the edges carries from -> to.
HasEdge(edges, from, to) ==
    \E i \in 1..Len(edges) : edges[i].from = from /\ edges[i].to = to

\* Everything the readers can see comes from a record of the log.
InLog ==
    \A recs \in {RecordsInLog(wal)} :
    /\ \A id \in DOMAIN nodes :
          \E r \in recs : r.kind = "node" /\ r.data.id = id
    /\ \A u \in DOMAIN adjacency : \A i \in 1..Len(adjacency[u]) :
          \E r \in recs :
             \/ r.kind = "edge" /\ r.from = u /\ r.to = adjacency[u][i]
             \/ r.kind = "node" /\ HasEdge(r.data.edges, u, adjacency[u][i])
    /\ \A id \in VIds(vector_index) :
          \E r \in recs :
             \/ r.kind = "embedding" /\ r.id = id
                   /\ r.vec = VCurrent(vector_index, id)
             \/ r.kind = "node" /\ r.data.id = id
                   /\ r.data.embedding = VCurrent(vector_index, id)
    /\ \A i \in 1..Len(batch_queue) :
          \E r \in recs :
             \/ r.kind = "embedding" /\ r.id = batch_queue[i].id
                   /\ r.vec = batch_queue[i].embedding
             \/ r.kind = "node" /\ r.data = batch_queue[i]
    /\ \A i \in 1..Len(decisions) :
          \E r \in recs : r.kind = "decision" /\ r.data = decisions[i]

\* C6: a write call that returns an error leaves the node table, the
\* adjacency index, the vector index, the staging buffer and the journal as
\* they were, and whatever an open engine holds comes from a record of the log.
C6_MemoryFollowsLog ==
    /\ [][(WriteStep /\ ~last'.ok) =>
             UNCHANGED <<nodes, adjacency, vector_index, batch_queue, decisions>>]_vars
    /\ [](status = "open" => InLog)

\* append_node failed on a node whose id the table already holds with other
\* content, and the table still holds the old entry.
C6_Witness ==
    /\ last.op = "append_node"
    /\ ~last.ok
    /\ last.rec.data.id \in DOMAIN nodes
    /\ nodes[last.rec.data.id].label = "a"
    /\ last.rec.data.label = "b"
    /\ adjacency = EmptyMap

\* Whether a line is a record or empty.
GoodLine(line) == line = <<>> \/ Deserialize(line).ok

\* The last line of the log is its only malformed line.
TruncatedTail(file) ==
    LET ls == Lines(file) IN
    /\ ls # <<>>
    /\ ~GoodLine(ls[Len(ls)])
    /\ \A k \in 1..(Len(ls) - 1) : GoodLine(ls[k])

RECURSIVE JoinLines(_)
JoinLines(ls) ==
    IF ls = <<>> THEN <<>> ELSE Head(ls) \o <<NL>> \o JoinLines(Tail(ls))

\* The log without its last line.
WithoutTail(file) == JoinLines(SubSeq(Lines(file), 1, Len(Lines(file)) - 1))

\* C7: when the last line of the log is its only malformed line, open
\* succeeds and recovers the state of the complete records before it.
C7_TruncatedTailTolerated ==
    (last.op = "open" /\ TruncatedTail(wal)) =>
        /\ last.ok
        /\ status = "open"
        /\ nodes = LoadWal(WithoutTail(wal)).st.nodes
        /\ adjacency = LoadWal(WithoutTail(wal)).st.adjacency
        /\ decisions = LoadWal(WithoutTail(wal)).st.decisions

\* The log has a malformed line that is not empty and not its last line.
CorruptInside(file) ==
    LET ls == Lines(file) IN
    \E k \in 1..(Len(ls) - 1) : ~GoodLine(ls[k])

\* A step that is a call of open.
OpenStep == status = "closed" /\ worker = "none" /\ last'.op = "open"

\* C8: open on a log with a malformed line that is not the last one returns
\* an error and no engine, leaves the log as it is and leaves no worker.
C8_CorruptLogRefused ==
    [][(OpenStep /\ CorruptInside(wal)) =>
          /\ ~last'.ok
          /\ status' = "closed"
          /\ worker' = "none"
          /\ wal' = wal]_vars

\* open has refused a log whose first line is malformed and whose second
\* line is a record.
C8_Witness ==
    /\ last.op = "open"
    /\ ~last.ok
    /\ status = "closed"
    /\ CorruptInside(wal)
    /\ Len(Lines(wal)) = 2
    /\ Deserialize(Lines(wal)[2]).ok

\* The ids of the node records among a sequence of WAL records.
NodeIdsOf(recs) ==
    {recs[i].data.id : i \in {j \in 1..Len(recs) : recs[j].kind = "node"}}

\* C9: the node table of an open engine has one entry for each id ever
\* appended; right after append_node(n) returned Ok, and after a re-open that
\* follows it, the entry of n.id is n.
C9_LastWriteWins ==
    /\ status = "open" =>
          /\ DOMAIN nodes = NodeIdsOf(hist)
          /\ Cardinality(DOMAIN nodes) = Cardinality(NodeIdsOf(hist))
    /\ (status = "open" /\ last.op = "append_node" /\ last.ok) =>
          nodes[last.rec.data.id] = last.rec.data
    /\ (status = "open" /\ last.op = "open" /\ last.ok /\ hist # <<>>
           /\ hist[Len(hist)].kind = "node") =>
          nodes[hist[Len(hist)].data.id] = hist[Len(hist)].data

\* A node was appended, given an edge by add_edge, and appended again with
\* other content.
C9_Witness ==
    /\ status = "open"
    /\ last.op = "append_node"
    /\ last.ok
    /\ Len(hist) = 3
    /\ hist[1].kind = "node"
    /\ hist[1].data.id = last.rec.data.id
    /\ hist[1].data # last.rec.data
    /\ hist[2].kind = "edge"
    /\ hist[2].from = last.rec.data.id

\* C10: with async_indexing disabled, a node of the node table has a
\* non-empty embedding exactly when the vector index contains its id, and
\* then the index uses that vector for the id.
C10_TableAgreesWithIndex ==
    (status = "open" /\ ~options.async_indexing) =>
        \A id \in DOMAIN nodes :
            /\ nodes[id].embedding # EmptyVec <=> VContains(vector_index, id)
            /\ nodes[id].embedding # EmptyVec =>
                  VCurrent(vector_index, id) = nodes[id].embedding

\* The greatest element of a non-empty set of numbers.
Max(S) == CHOOSE x \in S : \A y \in S : y <= x

\* Where the embedding records of id stand in a sequence of WAL records.
EmbeddingRecsOf(recs, id) ==
    {i \in 1..Len(recs) : recs[i].kind = "embedding" /\ recs[i].id = id}

\* Where the node records of id stand in a sequence of WAL records.
NodeRecsOf(recs, id) ==
    {i \in 1..Len(recs) : recs[i].kind = "node" /\ recs[i].data.id = id}

\* An engine that open has just returned.
JustOpened == status = "open" /\ last.op = "open" /\ last.ok

\* C11: after replay the index holds, for an id with an embedding record in
\* the log, the vector of the latest embedding record of the id, whatever
\* node records stand before or after it; for an id without one, the
\* embedding of its latest node record.
C11_LatestEmbeddingRecordWins ==
    JustOpened =>
        \A recs \in {ParsedRecords(Lines(wal))} :
          \A id \in NodeIds :
            LET es == EmbeddingRecsOf(recs, id)
                ns == NodeRecsOf(recs, id)
            IN  IF es # {}
                THEN /\ VContains(vector_index, id)
                     /\ VCurrent(vector_index, id) = recs[Max(es)].vec
                ELSE (ns # {} /\ recs[Max(ns)].data.embedding # EmptyVec) =>
                        /\ VContains(vector_index, id)
                        /\ VCurrent(vector_index, id) = recs[Max(ns)].data.embedding

\* C12: live with async_indexing disabled, and after replay, the index
\* contains id exactly when the latest embedding record of id carried a
\* non-empty vector or the latest node record of id carried a non-empty
\* embedding.
C12_IndexMembership ==
    (status = "open" /\ (~options.async_indexing \/ JustOpened)) =>
        \A recs \in {ParsedRecords(Lines(wal))} :
          \A id \in NodeIds :
            LET es == EmbeddingRecsOf(recs, id)
                ns == NodeRecsOf(recs, id)
            IN  VContains(vector_index, id) <=>
                  \/ es # {} /\ recs[Max(es)].vec # EmptyVec
                  \/ ns # {} /\ recs[Max(ns)].data.embedding # EmptyVec

\* C13: with async_indexing disabled, the knn_search(v, 1) that follows a
\* successful set_embedding(id, v) returns one pair, (id, 0), with either
\* backend and whatever was embedded before.
C13_NearestIsTheOneJustSet ==
    (status = "open" /\ ~options.async_indexing
        /\ last.op = "set_embedding" /\ last.ok) =>
        \A r \in VKnn(vector_index, last.rec.vec, 1) :
            r = <<[id |-> last.rec.id, distance |-> 0]>>

\* The vector of the latest successful set_embedding of id.
LatestEmbedding(id) == hist[Max(EmbeddingRecsOf(hist, id))].vec

\* C14: every pair (id, d) of a knn result of the approximate index carries
\* the distance from the query to the vector of the latest insert of id,
\* however many older points of id the proximity graph still holds.
C14_ShadowUpdate ==
    (status = "open" /\ vector_index.type = "Hnsw") =>
        \A query \in KnnVectors, k \in KnnSizes :
          \A r \in HnswKnn(vector_index, query, k) :
            \A i \in 1..Len(r) :
                r[i].distance = L2Distance(query, LatestEmbedding(r[i].id))

\* The point nearest to the query is a stale point of a node, and the
\* result holds that node with the distance of its current point.
C14_Witness ==
    /\ status = "open"
    /\ vector_index.type = "Hnsw"
    /\ \E query \in KnnVectors :
         \E c \in HnswSearch(vector_index, query, FetchK(1), EfSearch(1)) :
            /\ c # <<>>
            /\ vector_index.node_to_internal[vector_index.internal_to_node[c[1].d_id]]
                  # c[1].d_id
            /\ \E res \in {HnswCollect(vector_index, c, <<>>, {}, 1)} :
                  /\ Len(res) = 1
                  /\ res[1].id = vector_index.internal_to_node[c[1].d_id]
                  /\ res[1].distance # c[1].distance

\* The records of the write calls of the running session that returned Ok.
SessionWrites == SubSeq(hist, replayed + 1, Len(hist))

\* Where the records that carry a non-empty embedding for id stand.
EmbeddingWritesOf(recs, id) ==
    {i \in 1..Len(recs) :
        \/ recs[i].kind = "embedding" /\ recs[i].id = id /\ recs[i].vec # EmptyVec
        \/ recs[i].kind = "node" /\ recs[i].data.id = id
              /\ recs[i].data.embedding # EmptyVec}

VecOf(rec) == IF rec.kind = "embedding" THEN rec.vec ELSE rec.data.embedding

\* The engine is open with async_indexing, and the last write of the session
\* that carried a non-empty embedding for id carried v.
Awaited(id, v) ==
    /\ status = "open"
    /\ options.async_indexing
    /\ \E ws \in {SessionWrites} :
          /\ EmbeddingWritesOf(ws, id) # {}
          /\ VecOf(ws[Max(EmbeddingWritesOf(ws, id))]) = v

\* The index holds v for id.
Reflected(id, v) ==
    VContains(vector_index, id) /\ VCurrent(vector_index, id) = v

\* C15: with async_indexing and a fairly scheduled worker, if the engine
\* stays open and the embedding v a successful write gave to id is not
\* replaced by a later write, then from some moment on the index holds v for
\* id for good.
C15_EventuallyIndexed ==
    \A id \in NodeIds, v \in KnnVectors :
        <>[]Awaited(id, v) => <>[]Reflected(id, v)

\* The worker has indexed an embedding that was queued in this session after
\* another one for the same node.
C15_Witness ==
    /\ Awaited(1, V0)
    /\ Reflected(1, V0)
    /\ batch_queue = <<>>
    /\ Len(SessionWrites) = 2
    /\ SessionWrites[1].kind = "node"
    /\ SessionWrites[1].data.id = 1
    /\ SessionWrites[1].data.embedding = V1
    /\ replayed = 0

\* The targets of the edges that leave the nodes of S.
Targets(adj, S) ==
    UNION {{adj[n][i] : i \in 1..Len(adj[n])} : n \in S \cap DOMAIN adj}

RECURSIVE Within(_, _, _)
\* The nodes at most h directed edges away from start.
Within(adj, start, h) ==
    IF h = 0 THEN {start}
    ELSE Within(adj, start, h - 1) \cup Targets(adj, Within(adj, start, h - 1))

\* The shortest directed distance from start to a node that can be reached.
Distance(adj, start, n) ==
    CHOOSE h \in 0..Cardinality(DOMAIN adj) : 
        /\ n \in Within(adj, start, h)
        /\ \A g \in 0..(h - 1) : n \notin Within(adj, start, g)

\* The starts bfs_hops is asked about, and the known ones among them.
Starts == GraphIds \cup UnknownIds

KnownStarts == (DOMAIN nodes) \cup (DOMAIN adjacency)

\* C16: for a known start, the result of bfs_hops begins with start, holds
\* no id twice and holds no node that is more than max_hops edges from start.
C16_BfsSound ==
    status = "open" =>
        \A start \in KnownStarts, max_hops \in 0..MaxHops :
          \A r \in {BfsHops(nodes, adjacency, start, max_hops)} :
            /\ r # <<>>
            /\ r[1] = start
            /\ \A i, j \in 1..Len(r) : i # j => r[i] # r[j]
            /\ \A i \in 1..Len(r) : r[i] \in Within(adjacency, start, max_hops)

\* A cycle through three nodes with a self-loop and a double edge, searched
\* one hop deep: the node two edges away is left out.
C16_Witness ==
    /\ status = "open"
    /\ \E a, b, c \in GraphIds :
          /\ a # b /\ b # c /\ a # c
          /\ DOMAIN adjacency = {a, b, c}
          /\ adjacency[a] = <<a, b, b>>
          /\ adjacency[b] = <<c>>
          /\ BfsHops(nodes, adjacency, a, 1) = <<a, b>>

RECURSIVE FirstOccurrences(_, _)
\* A sequence without the elements of seen and without repetitions.
FirstOccurrences(s, seen) ==
    IF s = <<>> THEN <<>>
    ELSE IF Head(s) \in seen THEN FirstOccurrences(Tail(s), seen)
         ELSE <<Head(s)>> \o FirstOccurrences(Tail(s), seen \cup {Head(s)})

\* C17: the result of bfs_hops holds exactly the nodes at most max_hops
\* edges from start, in non-decreasing order of their distance, the
\* neighbours of start in stored order; with max_hops = 0 it is <<start>>.
C17_BfsComplete ==
    status = "open" =>
        \A start \in KnownStarts, max_hops \in 0..MaxHops :
          \A r \in {BfsHops(nodes, adjacency, start, max_hops)} :
            /\ {r[i] : i \in 1..Len(r)} = Within(adjacency, start, max_hops)
            /\ \A i, j \in 1..Len(r) :
                  i < j => Distance(adjacency, start, r[i])
                              <= Distance(adjacency, start, r[j])
            /\ max_hops = 0 => r = <<start>>
            /\ (max_hops = 1 /\ start \in DOMAIN adjacency) =>
                  r = <<start>> \o FirstOccurrences(adjacency[start], {start})

\* A start with two neighbours stored in descending id order and a node two
\* edges away.
C17_Witness ==
    /\ status = "open"
    /\ 1 \in DOMAIN adjacency
    /\ adjacency[1] = <<3, 2>>
    /\ BfsHops(nodes, adjacency, 1, 1) = <<1, 3, 2>>
    /\ \E a \in GraphIds :
          /\ Len(adjacency[a]) = 2
          /\ Len(BfsHops(nodes, adjacency, a, 1)) = 2
          /\ Len(BfsHops(nodes, adjacency, a, 2)) = 3

\* C18: the result of bfs_hops is empty exactly when start is in neither the
\* node table nor the adjacency index; otherwise it begins with start.
C18_BfsEmptyIffUnknown ==
    status = "open" =>
        \A start \in Starts, max_hops \in 0..MaxHops :
          \A r \in {BfsHops(nodes, adjacency, start, max_hops)} :
            /\ r = <<>> <=> (start \notin DOMAIN nodes /\ start \notin DOMAIN adjacency)
            /\ r # <<>> => r[1] = start

\* One start is known to the node table only, another to the adjacency index
\* only, and both are found.
C18_Witness ==
    /\ status = "open"
    /\ \E a, b \in GraphIds :
          /\ a \in DOMAIN nodes /\ a \notin DOMAIN adjacency
          /\ b \in DOMAIN adjacency /\ b \notin DOMAIN nodes
          /\ BfsHops(nodes, adjacency, a, 1) = <<a>>
          /\ BfsHops(nodes, adjacency, b, 1)[1] = b
          /\ \A u \in UnknownIds : BfsHops(nodes, adjacency, u, 1) = <<>>

\* hybrid_query has just returned.
Answered == status = "open" /\ answer.op = "hybrid_query"

\* The nodes hybrid_query had to choose from: those within max_hops edges of
\* start that have an embedding of the query's dimension.
Candidates ==
    {id \in Within(adjacency, answer.start, answer.max_hops) \cap DOMAIN nodes :
        /\ nodes[id].embedding # EmptyVec
        /\ Len(nodes[id].embedding) = Len(answer.query_embedding)}

\* The fused score of a candidate, from its distance to the query and its
\* shortest distance from start.
ScoreOf(id) ==
    RAdd(RMul(answer.params.alpha,
              RSub(Rat(1, 1),
                   RMin(Rat(1, 1), VecDist(answer.query_embedding, nodes[id].embedding)))),
         RMul(answer.params.beta,
              Rat(1, 1 + Distance(adjacency, answer.start, id))))

REq(a, b) == RLe(a, b) /\ RLe(b, a)

\* C19: hybrid_query returns at most k results, none for k = 0, no id twice,
\* in order of non-increasing score; a candidate that is left out has a score
\* no greater than any result.
C19_TopK ==
    Answered =>
        \A r \in {answer.result} :
            /\ Len(r) <= answer.k
            /\ answer.k = 0 => r = <<>>
            /\ \A i, j \in 1..Len(r) : i # j => r[i].id # r[j].id
            /\ \A i, j \in 1..Len(r) : i < j => RLe(r[j].score, r[i].score)
            /\ \A i \in 1..Len(r) :
                  r[i].id \in Candidates /\ REq(r[i].score, ScoreOf(r[i].id))
            /\ Len(r) = (IF Cardinality(Candidates) < answer.k
                         THEN Cardinality(Candidates) ELSE answer.k)
            /\ \A c \in Candidates \ {r[i].id : i \in 1..Len(r)} :
                  \A i \in 1..Len(r) : RLe(ScoreOf(c), r[i].score)

\* Three candidates of three different scores, two of them returned.
C19_Witness ==
    /\ Answered
    /\ answer.k = 2
    /\ Cardinality(Candidates) = 3
    /\ Len(answer.result) = 2
    /\ ~REq(answer.result[1].score, answer.result[2].score)
    /\ \E c \in Candidates :
          /\ \A i \in 1..2 : answer.result[i].id # c
          /\ ~REq(ScoreOf(c), answer.result[2].score)

\* C20: the score of every result of hybrid_query lies between 0 and
\* alpha + beta, hence between 0 and 1 for alpha = beta = 0.5.
C20_ScoreBounds ==
    Answered =>
        \A i \in 1..Len(answer.result) :
            /\ RLe(Rat(0, 1), answer.result[i].score)
            /\ RLe(answer.result[i].score,
                   RAdd(answer.params.alpha, answer.params.beta))
            /\ (answer.params.alpha = Rat(1, 2) /\ answer.params.beta = Rat(1, 2)) =>
                  RLe(answer.result[i].score, Rat(1, 1))

\* With weights above one: a result half a unit from the query and one hop
\* from start, and a result that reaches alpha + beta.
C20_Witness ==
    /\ Answered
    /\ answer.params.alpha = Rat(2, 1)
    /\ \E j, l \in 1..Len(answer.result) :
          /\ REq(answer.result[j].vector_distance, Rat(1, VecScale))
          /\ answer.result[j].graph_distance = 1
          /\ REq(answer.result[l].score, RAdd(answer.params.alpha, answer.params.beta))

\* The ids of a result of hybrid_query.
Returned == {answer.result[i].id : i \in 1..Len(answer.result)}

\* C21: with alpha = 0 and beta = 1 the results of hybrid_query stand in
\* order of ascending hop count, and a candidate that is left out is no
\* nearer to start than any result.
C21_BetaOnlyByHops ==
    (Answered /\ answer.params.alpha = Rat(0, 1) /\ answer.params.beta = Rat(1, 1)) =>
        \A r \in {answer.result} :
            /\ \A i, j \in 1..Len(r) :
                  i < j => r[i].graph_distance <= r[j].graph_distance
            /\ \A i \in 1..Len(r) :
                  r[i].graph_distance = Distance(adjacency, answer.start, r[i].id)
            /\ \A c \in Candidates \ Returned :
                  \A i \in 1..Len(r) :
                      r[i].graph_distance <= Distance(adjacency, answer.start, c)

\* Three candidates, the start and two nodes one hop away; the two results
\* are the start and one of the others.
C21_Witness ==
    /\ Answered
    /\ answer.params.alpha = Rat(0, 1)
    /\ answer.params.beta = Rat(1, 1)
    /\ answer.k = 2
    /\ Cardinality(Candidates) = 3
    /\ Len(answer.result) = 2
    /\ answer.result[1].graph_distance = 0
    /\ answer.result[2].graph_distance = 1

\* C22: with alpha = 1 and beta = 0 the results of hybrid_query stand in
\* order of ascending distance to the query, distances above 1 included, and
\* a candidate that is left out is no nearer to the query than any result.
C22_AlphaOnlyByDistance ==
    (Answered /\ answer.params.alpha = Rat(1, 1) /\ answer.params.beta = Rat(0, 1)) =>
        \A r \in {answer.result} :
            /\ \A i, j \in 1..Len(r) :
                  i < j => RLe(r[i].vector_distance, r[j].vector_distance)
            /\ \A c \in Candidates \ Returned :
                  \A i \in 1..Len(r) :
                      RLe(r[i].vector_distance,
                          VecDist(answer.query_embedding, nodes[c].embedding))

\* The distance as the score sees it: capped at 1.
Clamped(vec_dist) == RMin(vec_dist, Rat(1, 1))

\* C22 as amended: with alpha = 1 and beta = 0 the results of hybrid_query
\* stand in order of ascending distance capped at 1, and a candidate that is
\* left out has a capped distance no smaller than that of any result; the
\* candidates at distance 1 or more come last, in any order.
C22_AlphaOnlyByClampedDistance ==
    (Answered /\ answer.params.alpha = Rat(1, 1) /\ answer.params.beta = Rat(0, 1)) =>
        \A r \in {answer.result} :
            /\ \A i, j \in 1..Len(r) :
                  i < j => RLe(Clamped(r[i].vector_distance),
                               Clamped(r[j].vector_distance))
            /\ \A i \in 1..Len(r) :
                  REq(r[i].vector_distance,
                      VecDist(answer.query_embedding, nodes[r[i].id].embedding))
            /\ \A c \in Candidates \ Returned :
                  \A i \in 1..Len(r) :
                      RLe(Clamped(r[i].vector_distance),
                          Clamped(VecDist(answer.query_embedding, nodes[c].embedding)))

\* Two of three candidates are returned: one nearer than 1 to the query, then
\* one at 1 or more.
C22_Witness ==
    /\ Answered
    /\ answer.params.alpha = Rat(1, 1)
    /\ answer.params.beta = Rat(0, 1)
    /\ answer.k = 2
    /\ Cardinality(Candidates) = 3
    /\ Len(answer.result) = 2
    /\ ~RLe(Rat(1, 1), answer.result[1].vector_distance)
    /\ RLe(Rat(1, 1), answer.result[2].vector_distance)

\* Where the records that made the engine insert a vector for id stand: the
\* embedding records of id and its node records with a non-empty embedding.
InsertsOf(recs, id) ==
    {i \in 1..Len(recs) :
        \/ recs[i].kind = "embedding" /\ recs[i].id = id
        \/ recs[i].kind = "node" /\ recs[i].data.id = id
              /\ recs[i].data.embedding # EmptyVec}

\* The vector of the latest insert for id.
LatestInserted(id) == VecOf(hist[Max(InsertsOf(hist, id))])

\* Queries of length 0 and of length 1.
LinearQueries == {EmptyVec, V0, V1}

\* The ids whose stored vector has the length of the query.
SameLength(ix, q) == {id \in DOMAIN ix.vectors : Len(ix.vectors[id]) = Len(q)}

\* C23: knn of the exact backend returns min(k, vectors of the query's
\* length) pairs in non-decreasing distance, no id twice, no id whose vector
\* has another length, no pair farther than a same-length vector left out,
\* and the distance of an id is the distance to the vector last inserted
\* for it.
C23_LinearKnn ==
    (status = "open" /\ ~options.async_indexing /\ vector_index.type = "Linear") =>
        \A q \in LinearQueries, k \in 0..MaxK :
          \A r \in LinearKnn(vector_index, q, k) :
            LET same == SameLength(vector_index, q)
            IN  /\ Len(r) = (IF Cardinality(same) < k THEN Cardinality(same) ELSE k)
                /\ \A i, j \in 1..Len(r) : i < j => r[i].distance <= r[j].distance
                /\ \A i, j \in 1..Len(r) : i # j => r[i].id # r[j].id
                /\ \A i \in 1..Len(r) :
                      /\ r[i].id \in same
                      /\ InsertsOf(hist, r[i].id) # {}
                      /\ Len(LatestInserted(r[i].id)) = Len(q)
                      /\ r[i].distance = L2Distance(q, LatestInserted(r[i].id))
                /\ \A c \in same \ {r[i].id : i \in 1..Len(r)} :
                      \A i \in 1..Len(r) :
                          r[i].distance <= L2Distance(q, vector_index.vectors[c])

\* An exact index that holds an empty vector for node 1 and, for node 2, a
\* vector that replaced the embedding the node was appended with.
C23_Witness ==
    /\ status = "open"
    /\ ~options.async_indexing
    /\ vector_index.type = "Linear"
    /\ DOMAIN vector_index.vectors = {1, 2}
    /\ vector_index.vectors[1] = EmptyVec
    /\ vector_index.vectors[2] = V0
    /\ Len(hist) = 3
    /\ hist[2].kind = "node"
    /\ hist[2].data.id = 2
    /\ hist[2].data.embedding = V1

\* The places of the journal that hold a decision of the agent.
PlacesOf(journal, agent_id) ==
    {i \in 1..Len(journal) : journal[i].agent_id = agent_id}

\* The n-th smallest element of a set of numbers.
Nth(S, n) == CHOOSE x \in S : Cardinality({y \in S : y < x}) = n - 1

\* C24: list_decisions_for_agent returns the journal's records of the agent,
\* each place of the journal once and in journal order, and decision_count is
\* the number of record_decision calls that succeeded, over all sessions.
C24_DecisionsPerAgent ==
    status = "open" =>
        /\ DecisionCount(decisions) = Cardinality(
              {i \in 1..Len(hist) : hist[i].kind = "decision"})
        /\ decisions = DecisionsOf(hist)
        /\ \A agent_id \in AgentsAsked :
             \A l \in {ListDecisionsForAgent(decisions, agent_id)} :
                /\ Len(l) = Cardinality(PlacesOf(decisions, agent_id))
                /\ \A n \in 1..Len(l) :
                      l[n] = decisions[Nth(PlacesOf(decisions, agent_id), n)]

\* A second session whose journal holds two decisions of agent 1 around one
\* of agent 2, the first two replayed.
C24_Witness ==
    /\ status = "open"
    /\ replayed = 2
    /\ Len(decisions) = 3
    /\ decisions[1].agent_id = 1
    /\ decisions[2].agent_id = 2
    /\ decisions[3].agent_id = 1
    /\ decisions[1].id # decisions[3].id
    /\ ListDecisionsForAgent(decisions, 1) = <<decisions[1], decisions[3]>>

\* A step that drops the engine.
DropStep == status = "open" /\ status' = "closed"

\* C25: a call of open, whatever its options, and a drop of the engine leave
\* the log file as it is; so do any number of them in a row.
C25_OpenAndDropKeepLog ==
    [][(OpenStep \/ DropStep) => wal' = wal]_vars

\* An engine with the approximate backend and a worker, opened on a log of
\* three records after an earlier engine was dropped and nothing was written
\* since.
C25_Witness ==
    /\ status = "open"
    /\ last.op = "open"
    /\ snap.valid
    /\ replayed = 3
    /\ wal # <<>>
    /\ options.index_type = "Hnsw"
    /\ options.async_indexing
    /\ options.sync_writes

\* The place of a result of hybrid_query, and its steps along the path.
Places == 1..Len(answer.result)

\* C26: every result of hybrid_query carries the shortest directed distance
\* from start to its node and a shortest path: from start to the node, of
\* graph_distance + 1 ids, each step an entry of the adjacency index; start
\* itself has distance 0 and the path <<start>>.
C26_ShortestPaths ==
    Answered =>
        \A i \in Places :
          \A r \in {answer.result[i]} :
            /\ r.graph_distance <= answer.max_hops
            /\ r.id \in Within(adjacency, answer.start, r.graph_distance)
            /\ \A g \in 0..(r.graph_distance - 1) :
                  r.id \notin Within(adjacency, answer.start, g)
            /\ Len(r.path) = r.graph_distance + 1
            /\ r.path[1] = answer.start
            /\ r.path[Len(r.path)] = r.id
            /\ \A s \in 1..(Len(r.path) - 1) :
                  /\ r.path[s] \in DOMAIN adjacency
                  /\ \E e \in 1..Len(adjacency[r.path[s]]) :
                        adjacency[r.path[s]][e] = r.path[s + 1]
            /\ r.id = answer.start => (r.graph_distance = 0 /\ r.path = <<answer.start>>)

\* hybrid_query from 1 has returned start and node 3, two edges away by the
\* path 1, 2, 3.
C26_Witness ==
    /\ Answered
    /\ answer.start = 1
    /\ Len(answer.result) = 2
    /\ \E i \in Places : answer.result[i].path = <<1, 2, 3>>
    /\ \E i \in Places : answer.result[i].path = <<1>>

\* The ids bfs_hops returns for the start and max_hops of the query.
Frontier ==
    LET b == BfsHops(nodes, adjacency, answer.start, answer.max_hops)
    IN  {b[i] : i \in 1..Len(b)}

\* The embedding of an id: the vector of its latest embedding record or, when
\* it has none, the embedding of its latest node record.
EmbeddingOf(id) ==
    IF EmbeddingRecsOf(hist, id) # {} THEN LatestEmbedding(id)
    ELSE IF NodeRecsOf(hist, id) # {}
         THEN hist[Max(NodeRecsOf(hist, id))].data.embedding
         ELSE EmptyVec

\* C27: asked for at least as many results as there are visited ids,
\* hybrid_query returns the ids of bfs_hops(start, max_hops) that have an
\* embedding of the query's dimension, and no others.
C27_EmbeddedFrontier ==
    (Answered /\ answer.k >= Cardinality(Frontier)) =>
        Returned = {id \in Frontier :
                       /\ EmbeddingOf(id) # EmptyVec
                       /\ Len(EmbeddingOf(id)) = Len(answer.query_embedding)}

\* What hybrid_query does return: the ids of bfs_hops whose node record
\* carries an embedding of the query's dimension, as get_embedding reads it.
FrontierOfEmbeddedRecords ==
    (Answered /\ answer.k >= Cardinality(Frontier)) =>
        Returned = {id \in Frontier \cap DOMAIN nodes :
                       /\ nodes[id].embedding # EmptyVec
                       /\ Len(nodes[id].embedding) = Len(answer.query_embedding)}

\* Result sizes asked of the approximate index, none among them.
HnswSizes == 0..2

\* C28: knn of the approximate index returns at most k pairs, none for k = 0
\* and none from an empty index, no node id twice, and each pair carries the
\* distance to the point that is the current one of its node; the points
\* left behind by earlier inserts never show.
C28_HnswKnn ==
    (status = "open" /\ vector_index.type = "Hnsw") =>
        \A query \in KnnVectors, k \in HnswSizes :
          \A r \in HnswKnn(vector_index, query, k) :
            /\ Len(r) <= k
            /\ VLen(vector_index) = 0 => r = <<>>
            /\ \A i, j \in 1..Len(r) : r[i].id = r[j].id => i = j
            /\ \A i \in 1..Len(r) :
                  /\ r[i].id \in DOMAIN vector_index.node_to_internal
                  /\ r[i].distance =
                        L2Distance(query,
                            vector_index.points[vector_index.node_to_internal[r[i].id]])

\* An approximate index of two nodes and four points, two of them left
\* behind at distance 0 from the query while the current ones are not, that
\* has answered with both nodes.
C28_Witness ==
    /\ status = "open"
    /\ vector_index.type = "Hnsw"
    /\ VLen(vector_index) = 2
    /\ Cardinality(DOMAIN vector_index.points) = 4
    /\ \A id \in NodeIds : LatestEmbedding(id) = V1
    /\ \E p \in DOMAIN vector_index.points : vector_index.points[p] = V0
    /\ \E r \in HnswKnn(vector_index, V0, 2) : Len(r) = 2
    /\ HnswKnn(vector_index, V0, 0) = {<<>>}

\* A step that is a successful call of add_edge.
AddEdgeStep == WriteStep /\ last'.op = "add_edge" /\ last'.ok

\* The outgoing list of a key, empty for an id that is no key.
ListOf(adj, id) == IF id \in DOMAIN adj THEN adj[id] ELSE <<>>

\* C29: a successful add_edge(u, v, t) puts v at the end of u's outgoing
\* list, makes v a key (with an empty list if it was none), raises edge_count
\* by one and leaves the list of every other key as it was; neighbors(v) is
\* then a list, not a miss.
C29_AddEdgeAdjacency ==
    [][AddEdgeStep =>
          \A u \in {last'.rec.from}, v \in {last'.rec.to} :
            /\ adjacency'[u] = Append(ListOf(adjacency, u), v)
            /\ DOMAIN adjacency' = DOMAIN adjacency \cup {u, v}
            /\ (v \notin DOMAIN adjacency /\ v # u) => adjacency'[v] = <<>>
            /\ EdgeCount(adjacency') = EdgeCount(adjacency) + 1
            /\ \A w \in DOMAIN adjacency \ {u} : adjacency'[w] = adjacency[w]
            /\ Neighbors(adjacency', v).some
            /\ Neighbors(adjacency', v).list = adjacency'[v]]_vars

\* add_edge(1, 2, t) has been called twice in a row; 1 has two entries for 2,
\* whose neighbours are an empty list, and 3 is not a key.
C29_Witness ==
    /\ status = "open"
    /\ last.op = "add_edge"
    /\ last.ok
    /\ last.rec.from = 1
    /\ last.rec.to = 2
    /\ adjacency[1] = <<2, 2>>
    /\ Neighbors(adjacency, 2) = [some |-> TRUE, list |-> <<>>]
    /\ ~Neighbors(adjacency, 3).some
    /\ EdgeCount(adjacency) = 2

\* C30: a successful add_edge(from, to, t) leaves the node table with the
\* same ids; the record of from, when there is one, gains the triple at the
\* end of its edges and nothing else; every other record, that of to among
\* them, the vector index, the staging buffer and the decision journal stay
\* as they were.
C30_AddEdgeFrame ==
    [][AddEdgeStep =>
          \A u \in {last'.rec.from} :
            /\ DOMAIN nodes' = DOMAIN nodes
            /\ \A id \in DOMAIN nodes \ {u} : nodes'[id] = nodes[id]
            /\ u \in DOMAIN nodes =>
                  nodes'[u] = [nodes[u] EXCEPT !.edges =
                                  Append(@, [from |-> u, to |-> last'.rec.to,
                                             edge_type |-> last'.rec.edge_type])]
            /\ vector_index' = vector_index
            /\ batch_queue' = batch_queue
            /\ decisions' = decisions]_vars

\* add_edge(1, 2, t) has returned where 1 has no node record and 2 has one
\* with an embedding, the index holds a vector and the journal a decision.
C30_Witness ==
    /\ status = "open"
    /\ last.op = "add_edge"
    /\ last.ok
    /\ last.rec.from = 1
    /\ last.rec.to = 2
    /\ 1 \notin DOMAIN nodes
    /\ 2 \in DOMAIN nodes
    /\ nodes[2].embedding = V1
    /\ VContains(vector_index, 2)
    /\ decisions # <<>>
    /\ adjacency[1] = <<2>>

\* s is the beginning of t.
IsPrefix(s, t) == Len(s) <= Len(t) /\ SubSeq(t, 1, Len(s)) = s

\* Nothing of the first engine state is missing in the second: the ids of
\* the node table and of the index and the keys of the adjacency index are
\* all still there, and every adjacency list and the journal have grown at
\* the end only.
NothingLost(nodes1, ids1, adj1, journal1, nodes2, ids2, adj2, journal2) ==
    /\ DOMAIN nodes1 \subseteq DOMAIN nodes2
    /\ ids1 \subseteq ids2
    /\ DOMAIN adj1 \subseteq DOMAIN adj2
    /\ \A id \in DOMAIN adj1 : IsPrefix(adj1[id], adj2[id])
    /\ IsPrefix(journal1, journal2)

\* A step of an engine that stays open: a write call or a step of the worker.
SessionStep == status = "open" /\ status' = "open"

\* C31: nothing is deleted.  Within a session every step keeps the ids of the
\* node table, of the vector index and of the adjacency index, lets the
\* adjacency lists and the journal grow at the end only and leaves the
\* recorded decisions as they are; an engine opened again holds all that the
\* dropped one held.
C31_NothingDeleted ==
    [][/\ SessionStep =>
            NothingLost(nodes, VIds(vector_index), adjacency, decisions,
                        nodes', VIds(vector_index'), adjacency', decisions')
       /\ (OpenStep /\ status' = "open" /\ snap.valid) =>
            NothingLost(snap.nodes, DOMAIN snap.vectors, snap.adjacency,
                        snap.decisions,
                        nodes', VIds(vector_index'), adjacency', decisions')]_vars

\* An engine opened again on a log of three records: a node with an
\* embedding, the same node again without one, and a decision.
C31_Witness ==
    /\ JustReopened
    /\ replayed = 3
    /\ 1 \in DOMAIN nodes
    /\ nodes[1].embedding = EmptyVec
    /\ VContains(vector_index, 1)
    /\ Len(decisions) = 1
    /\ hist[1].kind = "node"
    /\ hist[2].kind = "node"

\* The number of newline-terminated lines of a file.
CompleteLines(file) == Cardinality({i \in 1..Len(file) : file[i] = NL})

WriteOps == {"append_node", "add_edge", "set_embedding", "record_decision"}

\* C33: a write call that returned Ok has flushed the log if and only if the
\* engine was opened with sync_writes, whichever of the four operations it
\* was.
C33_FlushFollowsSyncWrites ==
    (status = "open" /\ last.op \in WriteOps /\ last.ok) =>
        last.flushed = options.sync_writes

\* C34: the worker of an engine with async_indexing is there as long as the
\* engine is, it ends only when the engine is gone, and once the engine is
\* dropped the worker, scheduled again and again, ends.
C34_WorkerEndsWithEngine ==
    /\ []((status = "open" /\ options.async_indexing) => worker # "none")
    /\ [][(worker # "none" /\ worker' = "none") => status = "closed"]_vars
    /\ (status = "closed") ~> (worker = "none")

\* The engine with async_indexing has been dropped with work pending, and its
\* worker has ended since.
C34_Witness ==
    /\ status = "closed"
    /\ last.op = "drop"
    /\ snap.valid
    /\ snap.async
    /\ worker = "none"
    /\ hist # <<>>

RECURSIVE ReplayOf(_, _)
\* What replay makes of a sequence of records.
ReplayOf(recs, st) ==
    IF recs = <<>> THEN st ELSE ReplayOf(Tail(recs), ApplyRecord(st, Head(recs)))

\* The ids the index held when the session was opened, and the vector of each.
IdsAtOpen(st) ==
    DOMAIN st.vectors \cup {id \in DOMAIN st.nodes : st.nodes[id].embedding # EmptyVec}

VectorAtOpen(st, id) ==
    IF id \in DOMAIN st.vectors THEN st.vectors[id] ELSE st.nodes[id].embedding

\* The writes of the session that carried a non-empty embedding.
EmbeddingWrites(recs) == UNION {EmbeddingWritesOf(recs, id) : id \in NodeIds}

\* The engine is open with async_indexing and nothing is pending.
Drained == status = "open" /\ options.async_indexing /\ batch_queue = <<>>

KnnAnswered == answer.op = "knn"

\* The ids a knn result holds.
KnnReturned == {answer.result[i].id : i \in 1..Len(answer.result)}

\* The nodes an insert has returned for: some internal id resolves to them.
Established == {vector_index.internal_to_node[p] : p \in DOMAIN vector_index.internal_to_node}

\* The points that were inserted for a node, published or not yet.
PointsOf(id) ==
    {p \in DOMAIN vector_index.points :
        \/ p \in DOMAIN vector_index.internal_to_node
              /\ vector_index.internal_to_node[p] = id
        \/ \E t \in Threads :
              inserting[t].pc # "idle" /\ inserting[t].internal_id = p
                 /\ inserting[t].id = id}

\* C36: a knn that runs while the worker is inside insert(id, v2), and that
\* is asked for as many results as there are nodes (every point being within
\* the candidate window), returns each node that had a vector before exactly
\* once, with the distance to one of its points.
C36_KnnKeepsIdDuringInsert ==
    (/\ KnnAnswered
     /\ answer.k >= Cardinality(NodeIds)
     /\ Cardinality(DOMAIN vector_index.points) <= FetchK(answer.k)) =>
        \A id \in Established :
            /\ Cardinality({i \in 1..Len(answer.result) : answer.result[i].id = id}) = 1
            /\ \A i \in 1..Len(answer.result) :
                  answer.result[i].id = id =>
                     \E p \in PointsOf(id) :
                        answer.result[i].distance =
                           L2Distance(answer.query, vector_index.points[p])

\* The file ends with the complete line of the record.
EndsWithLineOf(file, rec) ==
    \E l \in {Serialize(rec) \o <<NL>>} :
        Len(l) <= Len(file) /\ SubSeq(file, Len(file) - Len(l) + 1, Len(file)) = l

\* C37: when a write call has failed and the last thing written to the log
\* is the line of a write that returned Ok, the next open succeeds and
\* replays that record last.
C37_FailedWriteDoesNotPoison ==
    [][(/\ OpenStep
        /\ faults >= 1
        /\ hist # <<>>
        /\ EndsWithLineOf(wal, hist[Len(hist)])) =>
          /\ last'.ok
          /\ status' = "open"
          /\ \E recs \in {ParsedRecords(Lines(wal))} :
                recs # <<>> /\ recs[Len(recs)] = hist[Len(hist)]]_vars

\* ------------------------------------------------------------------ C38
\* append_node called with the record get_node returns for an id of the table.
ReappendNode ==
    /\ writes < MaxGraphWrites
    /\ \E id \in DOMAIN nodes : append_node(nodes[id], OkOutcome)

\* Sessions that build a graph by add_edge and append_node and append again
\* what get_node returns.
NextReappend ==
    \/ OpenPlain
    \/ Drop
    \/ AddEdgeAmong
    \/ AppendBareNode
    \/ ReappendNode

SpecReappend == Init /\ [][NextReappend]_vars

\* A step that is a successful append_node of the record the table holds.
ReappendStep ==
    /\ WriteStep
    /\ last'.op = "append_node"
    /\ last'.ok
    /\ last'.rec.data.id \in DOMAIN nodes
    /\ last'.rec.data = nodes[last'.rec.data.id]

\* C38: appending the record get_node returns leaves the adjacency index,
\* edge_count and every bfs_hops result as they were, in memory and in what a
\* replay of the log rebuilds.
C38_ReappendIdempotent ==
    [][ReappendStep =>
          /\ adjacency' = adjacency
          /\ EdgeCount(adjacency') = EdgeCount(adjacency)
          /\ \A start \in GraphIds \cup UnknownIds, h \in 0..MaxHops :
                BfsHops(nodes', adjacency', start, h) = BfsHops(nodes, adjacency, start, h)
          /\ LoadWal(wal').st.adjacency = LoadWal(wal).st.adjacency]_vars

\* The part of it that holds: no bfs_hops result changes.
ReappendKeepsBfs ==
    [][ReappendStep =>
          \A start \in GraphIds \cup UnknownIds, h \in 0..MaxHops :
             BfsHops(nodes', adjacency', start, h) = BfsHops(nodes, adjacency, start, h)]_vars

\* ------------------------------------------------------------------ C39
\* The internal ids handed out so far: those of the calls of insert that are
\* under way and those that resolve to a node.
HandedOut ==
    {inserting[t].internal_id : t \in {u \in Threads : inserting[u].pc # "idle"}}
        \cup DOMAIN vector_index.internal_to_node

\* No thread is in a call of insert.
NoInsertInProgress == \A t \in Threads : inserting[t].pc = "idle"

\* The node ids of the calls of insert that have returned.
InsertedIds ==
    {vector_index.internal_to_node[i] : i \in DOMAIN vector_index.internal_to_node}

\* C39: every insert draws an internal id never handed out before, also when
\* two threads insert at once; an internal->node entry never changes once
\* written; and when no insert is in progress the current internal id of
\* every node resolves back to that node, so that len() is the number of
\* distinct node ids inserted, not the number of points.
C39_MappingConsistency ==
    /\ [][\A t \in Threads :
            (inserting[t].pc = "idle" /\ inserting'[t].pc # "idle") =>
                /\ inserting'[t].internal_id \notin HandedOut
                /\ inserting'[t].internal_id \notin DOMAIN vector_index.points]_vars
    /\ [][\A i \in DOMAIN vector_index.internal_to_node :
            /\ i \in DOMAIN vector_index'.internal_to_node
            /\ vector_index'.internal_to_node[i] = vector_index.internal_to_node[i]]_vars
    /\ [](NoInsertInProgress =>
            /\ \A n \in DOMAIN vector_index.node_to_internal :
                  \E i \in {vector_index.node_to_internal[n]} :
                     /\ i \in DOMAIN vector_index.internal_to_node
                     /\ vector_index.internal_to_node[i] = n
            /\ DOMAIN vector_index.node_to_internal = InsertedIds
            /\ VLen(vector_index) = Cardinality(InsertedIds)
            /\ VLen(vector_index) <= Cardinality(DOMAIN vector_index.points))

\* Two inserts for node 1 ran at once and the one that drew its internal id
\* first published last: node 1 is current at the older point, both points
\* resolve to it, and len() is 1 over two points.
C39_Witness ==
    /\ NoInsertInProgress
    /\ vector_index.next_internal_id = 3
    /\ vector_index.node_to_internal = (1 :> 1)
    /\ vector_index.internal_to_node = <<1, 1>>
    /\ VLen(vector_index) = 1
    /\ Cardinality(DOMAIN vector_index.points) = 2

\* ------------------------------------------------------------------ C40
\* The step in which the background worker finds the queue detached and ends.
WorkerExits == worker = "check" /\ worker' = "none"

\* The updates in the staging buffer that carry an embedding to insert.
PendingUpdates ==
    {i \in 1..Len(batch_queue) : batch_queue[i].embedding # EmptyVec}

\* C40: when the worker ends, the staging buffer holds no update that the
\* engine pushed before it was dropped and that the worker has not inserted.
C40_NothingPendingAtExit ==
    [][WorkerExits => PendingUpdates = {}]_vars

====
